---- MODULE Spec2Model ----
(***************************************************************************)
(* Model of the program-planning assistant backend (backend/src/server.js, *)
(* backend/src/models.js) and of the two frontend pages that drive the     *)
(* collaboration API.  The Event collection, the User collection, the      *)
(* last HTTP response and the mails handed to the transport are the state; *)
(* every Express route is one action.                                      *)
(***************************************************************************)
EXTENDS Integers, Sequences, FiniteSets, TLC

\* ------------------------------------------------------------------ bounds
MaxEvents == 2
MaxShared == 1
MaxLog == 3             \* length up to which the activity log is explored
MaxCollaborators == 2   \* collaborators per event
MaxFresh == 3           \* random tokens / subdocument ids ever generated
MaxVersion == 3         \* array-changing saves explored (sum of the version keys __v)
MaxToggles == 1         \* toggles one collaborative page sends
MaxPlans == 1           \* ProgramPlan documents
MaxTurns == 2           \* conversation turns stored in a plan
MaxDay == 1             \* days the clock may advance
DayLen == 2             \* clock ticks per calendar day

\* -------------------------------------------------------- program constants
DEFAULT_REMINDER_DAYS == 5
TASK_PREFIX == 20
ACTIVITY_LIMIT == 50
POLICY_CAP == 12
MIN_REMINDER_DAYS == 1
MAX_REMINDER_DAYS == 30

\* ------------------------------------------------------------ value domains
Null == "null"                       \* JS null / undefined for id-like values
NoToken == 0                         \* a token field that holds null
Absent == -1                         \* a token field missing from the document
NoDate == -1                         \* a Date field that is not set
BadId == -2                          \* an id string that is not an ObjectId

UserIdSeq == <<"u1", "u2", "u3">>    \* the _ids of User documents, in creation order
UserIds == {UserIdSeq[i] : i \in 1..Len(UserIdSeq)}
Permissions == {"view", "edit", "admin"}

Truthy(x) == x # Null /\ x # ""

\* e-mail addresses and task names are strings, modelled as tuples of characters
Lower(c) == CASE c = "A" -> "a" [] c = "B" -> "b" [] c = "C" -> "c"
              [] c = "Alcohol" -> "alcohol" [] c = "Policy" -> "policy"
              [] c = "Marketing" -> "marketing" [] c = "Communications" -> "communications"
              [] c = "Space" -> "space" [] c = "Booking" -> "booking" [] c = "Use" -> "use"
              [] c = "Technology" -> "technology" [] c = "Electronic" -> "electronic"
              [] c = "Protection" -> "protection" [] c = "Minors" -> "minors"
              [] c = "Beer" -> "beer" [] c = "Student" -> "student" [] c = "Staff" -> "staff"
              [] OTHER -> c
toLowerCase(s) == [i \in 1..Len(s) |-> Lower(s[i])]

RECURSIVE trimStart(_)
trimStart(s) == IF s # <<>> /\ Head(s) = " " THEN trimStart(Tail(s)) ELSE s

RECURSIVE trimEnd(_)
trimEnd(s) == IF s # <<>> /\ s[Len(s)] = " " THEN trimEnd(SubSeq(s, 1, Len(s) - 1)) ELSE s

trim(s) == trimEnd(trimStart(s))

\* server.js:15  (e || '').trim().toLowerCase(); a missing e-mail is <<>>
normEmail(e) == toLowerCase(trim(e))

\* --------------------------------------------------------------- documents
NoEvent == [exists |-> FALSE]
NoUser == [exists |-> FALSE]
NoPlan == [exists |-> FALSE]

\* index of the first element of s satisfying P, 0 when there is none
FindIndex(s, P(_)) ==
  IF \E i \in 1..Len(s) : P(s[i])
  THEN CHOOSE i \in 1..Len(s) : P(s[i]) /\ \A j \in 1..(i - 1) : ~P(s[j])
  ELSE 0

RemoveAt(s, i) == SubSeq(s, 1, i - 1) \o SubSeq(s, i + 1, Len(s))

\* Object.assign(event, updateData) / $set: fields of upd replace those of ev
Assign(ev, upd) == [f \in DOMAIN ev |-> IF f \in DOMAIN upd THEN upd[f] ELSE ev[f]]

Omit(r, fs) == [f \in DOMAIN r \ fs |-> r[f]]

LogEntry(userId, action) == [userId |-> userId, action |-> action]

VARIABLES
  mongoConnected,   \* server.js:18
  events,           \* the Event collection, by _id
  nextEvent,        \* number of Event _ids handed out
  fresh,            \* number of random tokens / subdocument ids generated
  now,              \* the clock, in ticks
  resp,             \* the last HTTP response together with its request
  users,            \* the User collection, by _id
  outbox,           \* the mails the last reminder run handed to the transport
  revoked,          \* the collaborationIds that a successful disable has removed
  shareView,        \* what the holder of a share link has read from the public view
  clients,          \* the open collaborative pages: local copy and request in flight
  optedOut,         \* the events unsubscribed and not opted in again by an update since
  plans,            \* the ProgramPlan collection, by _id
  policies          \* the Policy collection, in insertion order

vars == <<mongoConnected, events, nextEvent, fresh, now, resp, users, outbox, revoked, shareView,
          clients, optedOut, plans, policies>>

EventIds == 1..MaxEvents
PlanIds == 1..MaxPlans

Existing == {id \in EventIds : events[id].exists}

\* EventSchema.pre('save'), models.js:348
preSave(ev) ==
  [ev EXCEPT !.updatedAt = now,
             !.owner = IF ~Truthy(ev.owner) /\ Truthy(ev.userId) THEN ev.userId ELSE ev.owner]

\* unique sparse indexes on collaborationId and shareId (models.js:301,307,361):
\* a document that has the field, also with the value null, is indexed
DuplicateKey(id, ev) ==
  \E o \in Existing \ {id} :
     \/ ev.collaborationId # Absent /\ events[o].collaborationId = ev.collaborationId
     \/ ev.shareId # Absent /\ events[o].shareId = ev.shareId

\* the part of the state space that is explored: the version keys of all
\* events together count the array-changing saves
RECURSIVE VersionSum(_, _, _)
VersionSum(i, id, ev) ==
  IF i > MaxEvents THEN 0
  ELSE (IF i = id THEN ev.v ELSE IF events[i].exists THEN events[i].v ELSE 0)
         + VersionSum(i + 1, id, ev)

Bounded(id, ev) ==
  /\ Len(ev.activityLog) <= MaxLog
  /\ Len(ev.collaborators) <= MaxCollaborators
  /\ VersionSum(1, id, ev) <= MaxVersion

NoBody == [none |-> TRUE]

\* two browser tabs showing the collaborative page, before they load anything
ClientIds == {"tab1", "tab2"}
NoTab == [cid |-> Absent, checklist |-> <<>>, sent |-> 0, put |-> NoBody]

ResponseWith(op, status, who, eid, body) ==
  [op |-> op, status |-> status, who |-> who, email |-> <<>>, eid |-> eid, cid |-> Absent,
   actor |-> "client", body |-> body]

Response(op, status, who, eid) == ResponseWith(op, status, who, eid, NoBody)

Init ==
  /\ mongoConnected \in BOOLEAN
  /\ events = [id \in EventIds |-> NoEvent]
  /\ nextEvent = 0
  /\ fresh = 0
  /\ now = 0
  /\ resp = Response("none", 0, Null, 0)
  /\ users = [u \in UserIds |-> NoUser]
  /\ outbox = <<>>
  /\ revoked = {}
  /\ shareView = NoBody
  /\ clients = [c \in ClientIds |-> NoTab]
  /\ optedOut = {}
  /\ plans = [p \in PlanIds |-> NoPlan]
  /\ policies = <<>>

\* ------------------------------------------------------ POST /api/events
Item(task, completed, isTimeHeader, dueDate) ==
  [task |-> task, completed |-> completed, isTimeHeader |-> isTimeHeader, dueDate |-> dueDate]

\* a new Event document with the schema defaults (models.js:230-345)
NewEvent ==
  [exists |-> TRUE, userId |-> Null, owner |-> Null, title |-> "",
   checklist |-> <<>>, notifications |-> [emailOptIn |-> TRUE, reminderDays |-> DEFAULT_REMINDER_DAYS],
   shareId |-> Absent, shareEnabled |-> FALSE,
   collaborationEnabled |-> FALSE, collaborationId |-> Absent,
   collaborators |-> <<>>, activityLog |-> <<>>, updatedAt |-> 0, v |-> 0]

\* server.js:498-507
notificationDefaults(n) ==
  [f \in {"emailOptIn", "reminderDays"} |->
     IF f \in DOMAIN n THEN n[f]
     ELSE IF f = "emailOptIn" THEN TRUE ELSE DEFAULT_REMINDER_DAYS]

\* server.js:476-539
CreateEvent(body) ==
  LET eventData == [f \in DOMAIN body \cup {"notifications"} |->
                      IF f = "notifications"
                      THEN notificationDefaults(IF "notifications" \in DOMAIN body
                                                THEN body.notifications ELSE <<>>)
                      ELSE body[f]]
      id == nextEvent + 1
      event == preSave(Assign(NewEvent, eventData))
      who == IF "userId" \in DOMAIN body THEN body.userId ELSE Null
  IN /\ nextEvent < MaxEvents
     /\ IF ~mongoConnected
        THEN /\ resp' = Response("createEvent", 200, who, 0)
             /\ UNCHANGED <<events, nextEvent>>
        ELSE IF ~Truthy(event.userId) \/ ~Truthy(event.title) \/ DuplicateKey(id, event)
        THEN /\ resp' = Response("createEvent", 400, Null, 0)
             /\ UNCHANGED <<events, nextEvent>>
        ELSE /\ events' = [events EXCEPT ![id] = event]
             /\ nextEvent' = id
             /\ resp' = Response("createEvent", 200, who, id)
     /\ UNCHANGED <<mongoConnected, fresh, now, users, outbox, revoked, shareView, clients, optedOut, plans, policies>>

\* ------------------------------------------- collaboration: enable / disable
\* server.js:709-750; who is the party sending the request, which the handler
\* never reads
EnableCollaboration(id, who) ==
  /\ IF ~mongoConnected
     THEN /\ resp' = Response("enable", 503, Null, id)
          /\ UNCHANGED <<events, fresh>>
     ELSE IF ~events[id].exists
     THEN /\ resp' = Response("enable", 404, Null, id)
          /\ UNCHANGED <<events, fresh>>
     ELSE IF events[id].collaborationEnabled
     THEN /\ resp' = ResponseWith("enable", 200, who, id,
                                  [collaborationId |-> events[id].collaborationId])
          /\ UNCHANGED <<events, fresh>>
     ELSE LET ev == events[id]
              token == fresh + 1
              event == preSave([ev EXCEPT !.collaborationId = token,
                                          !.collaborationEnabled = TRUE,
                                          !.activityLog = Append(@, LogEntry(ev.userId, "created")),
                                          !.v = @ + 1])
          IN /\ fresh < MaxFresh
             /\ Bounded(id, event)
             /\ fresh' = token
             /\ IF DuplicateKey(id, event)
                THEN /\ resp' = Response("enable", 500, Null, id)
                     /\ UNCHANGED events
                ELSE /\ events' = [events EXCEPT ![id] = event]
                     /\ resp' = ResponseWith("enable", 200, who, id,
                                             [collaborationId |-> token])
  /\ UNCHANGED <<mongoConnected, nextEvent, now, users, outbox, revoked, shareView, clients, optedOut, plans, policies>>

\* server.js:753-785
DisableCollaboration(id, who) ==
  /\ IF ~mongoConnected
     THEN /\ resp' = Response("disable", 503, Null, id)
          /\ UNCHANGED <<events, revoked>>
     ELSE IF ~events[id].exists
     THEN /\ resp' = Response("disable", 404, Null, id)
          /\ UNCHANGED <<events, revoked>>
     ELSE LET ev == events[id]
              event == preSave([ev EXCEPT !.collaborationEnabled = FALSE,
                                          !.collaborationId = NoToken,
                                          !.collaborators = <<>>,
                                          !.activityLog = Append(@, LogEntry(ev.userId, "updated")),
                                          !.v = @ + 1])
          IN /\ Bounded(id, event)
             /\ IF DuplicateKey(id, event)
                THEN /\ resp' = Response("disable", 500, Null, id)
                     /\ UNCHANGED <<events, revoked>>
                ELSE /\ events' = [events EXCEPT ![id] = event]
                     /\ revoked' = revoked \cup ({ev.collaborationId} \ {Absent, NoToken})
                     /\ resp' = Response("disable", 200, who, id)
  /\ UNCHANGED <<mongoConnected, nextEvent, fresh, now, users, outbox, shareView, clients, optedOut, plans, policies>>

\* ------------------------------------------------ collaborators: add / remove
Collaborator(oid, userId, email, firstName, lastName, permission) ==
  [oid |-> oid, userId |-> userId, email |-> email, firstName |-> firstName,
   lastName |-> lastName, permission |-> permission, lastActive |-> now]

\* server.js:831-891
AddCollaborator(id, who, body) ==
  LET email == normEmail(body.email)
      ev == events[id]
      oid == fresh + 1
      collaborator == Collaborator(oid, body.userId, email, body.firstName,
                                   body.lastName, body.permission)
      event == preSave([ev EXCEPT !.collaborators = Append(@, collaborator),
                                   !.activityLog = Append(@, LogEntry(ev.userId, "added_collaborator")),
                                   !.v = @ + 1])
  IN /\ IF ~mongoConnected
        THEN /\ resp' = Response("addCollaborator", 503, Null, id)
             /\ UNCHANGED <<events, fresh>>
        ELSE IF email = <<>> \/ ~Truthy(body.firstName) \/ ~Truthy(body.lastName)
        THEN /\ resp' = Response("addCollaborator", 400, Null, id)
             /\ UNCHANGED <<events, fresh>>
        ELSE IF ~ev.exists
        THEN /\ resp' = Response("addCollaborator", 404, Null, id)
             /\ UNCHANGED <<events, fresh>>
        ELSE IF ~ev.collaborationEnabled
        THEN /\ resp' = Response("addCollaborator", 400, Null, id)
             /\ UNCHANGED <<events, fresh>>
        ELSE IF \E i \in 1..Len(ev.collaborators) : normEmail(ev.collaborators[i].email) = email
        THEN /\ resp' = Response("addCollaborator", 400, Null, id)
             /\ UNCHANGED <<events, fresh>>
        ELSE /\ fresh < MaxFresh
             /\ Bounded(id, event)
             /\ fresh' = oid
             /\ events' = [events EXCEPT ![id] = event]
             /\ resp' = ResponseWith("addCollaborator", 200, who, id, [oid |-> oid])
     /\ UNCHANGED <<mongoConnected, nextEvent, now, users, outbox, revoked, shareView, clients, optedOut, plans, policies>>

\* server.js:894-930
RemoveCollaborator(id, who, collaboratorId) ==
  LET ev == events[id]
      collaboratorIndex == FindIndex(ev.collaborators, LAMBDA c : c.oid = collaboratorId)
      event == preSave([ev EXCEPT !.collaborators = RemoveAt(@, collaboratorIndex),
                                   !.activityLog = Append(@, LogEntry(ev.userId, "removed_collaborator")),
                                   !.v = @ + 1])
  IN /\ IF ~mongoConnected
        THEN /\ resp' = Response("removeCollaborator", 503, Null, id)
             /\ UNCHANGED events
        ELSE IF ~ev.exists
        THEN /\ resp' = Response("removeCollaborator", 404, Null, id)
             /\ UNCHANGED events
        ELSE IF collaboratorIndex = 0
        THEN /\ resp' = Response("removeCollaborator", 404, Null, id)
             /\ UNCHANGED events
        ELSE /\ Bounded(id, event)
             /\ events' = [events EXCEPT ![id] = event]
             /\ resp' = Response("removeCollaborator", 200, who, id)
     /\ UNCHANGED <<mongoConnected, nextEvent, fresh, now, users, outbox, revoked, shareView, clients, optedOut, plans, policies>>

\* ---------------------------------------- PUT /api/collaborate/:collaborationId
Field(r, f, default) == IF f \in DOMAIN r THEN r[f] ELSE default

\* the request body sets notifications.emailOptIn to true
OptsIn(body) ==
  /\ "notifications" \in DOMAIN body
  /\ "emailOptIn" \in DOMAIN body.notifications
  /\ body.notifications.emailOptIn = TRUE

\* Event.findOne({ collaborationId, collaborationEnabled: true }): 0 when none
FindCollaborative(cid) ==
  IF \E id \in Existing : events[id].collaborationId = cid /\ events[id].collaborationEnabled
  THEN CHOOSE id \in Existing : events[id].collaborationId = cid /\ events[id].collaborationEnabled
  ELSE 0

FindCollaborator_first(ev, userId, email) == IF ev.collaborators # <<>> THEN 1 ELSE 0

\* server.js:959-963
FindCollaborator(ev, userId, email) ==
  FindIndex(ev.collaborators,
            LAMBDA c : \/ Truthy(userId) /\ Truthy(c.userId) /\ c.userId = userId
                       \/ email # <<>> /\ normEmail(c.email) = email)

\* server.js:958
IsOwner(ev, userId) ==
  Truthy(userId) /\ (IF Truthy(ev.owner) THEN ev.owner ELSE ev.userId) = userId

\* every listed collaborator may edit, whatever the permission
HasEditPermission_anyCollaborator(ev, userId, email) ==
  IsOwner(ev, userId) \/ FindCollaborator(ev, userId, email) # 0

\* server.js:965
HasEditPermission(ev, userId, email) ==
  LET ci == FindCollaborator(ev, userId, email)
  IN IsOwner(ev, userId) \/ (ci # 0 /\ ev.collaborators[ci].permission \in {"edit", "admin"})

\* server.js:981-997: one entry per checklist position whose completed flag differs
ChecklistActivity(old, new, userId) ==
  LET changed == SelectSeq([i \in 1..Len(new) |-> i],
                           LAMBDA i : i <= Len(old) /\ new[i].completed # old[i].completed)
  IN [k \in 1..Len(changed) |->
        LogEntry(userId, IF new[changed[k]].completed THEN "completed_task" ELSE "uncompleted_task")]

\* server.js:972-1015: the document as the handler has changed it when it calls
\* save(), the top-level paths save() will $set and the entries it will $push
CollabUpdate(ev, body) ==
  LET userId == Field(body, "userId", Null)
      logUser == IF Truthy(userId) THEN userId ELSE Null
      email == normEmail(Field(body, "email", <<>>))
      updateData == Omit(body, {"userId", "userName", "email"})
      ci == FindCollaborator(ev, userId, email)
      bound == IF ci = 0 THEN ev
               ELSE [ev EXCEPT !.collaborators[ci].userId =
                                   IF ~Truthy(@) /\ Truthy(userId) THEN userId ELSE @,
                               !.collaborators[ci].lastActive = now]
      toggles == IF "checklist" \in DOMAIN updateData
                 THEN ChecklistActivity(ev.checklist, updateData.checklist, logUser)
                 ELSE <<>>
      assigned == Assign([bound EXCEPT !.activityLog = @ \o toggles], updateData)
      isChecklistOnlyUpdate == DOMAIN updateData = {"checklist"}
      general == IF isChecklistOnlyUpdate THEN <<>> ELSE <<LogEntry(logUser, "updated")>>
      arrays == (DOMAIN updateData \cap {"checklist", "collaborators", "activityLog"})
                   \cup (IF ci # 0 THEN {"collaborators"} ELSE {})
  IN [event |-> [assigned EXCEPT !.activityLog = @ \o general],
      set   |-> (DOMAIN updateData \cap DOMAIN ev) \cup arrays,
      push  |-> IF "activityLog" \in DOMAIN updateData THEN <<>> ELSE toggles \o general,
      where |-> arrays # {},
      inc   |-> arrays # {} \/ toggles \o general # <<>>]

\* the save answers 200 but writes only the pushed log entries
applySave_pushOnly(current, upd) ==
  [current EXCEPT !.activityLog = @ \o upd.push,
                  !.updatedAt = now,
                  !.v = IF upd.inc THEN @ + 1 ELSE @]

\* server.js:1017 event.save(): the update the save sends, applied to the stored
\* document: $set of the modified paths, $push of the new log entries, $inc of
\* the version key
applySave(current, upd) ==
  preSave([f \in DOMAIN current |->
             IF f = "v" THEN (IF upd.inc THEN current.v + 1 ELSE current.v)
             ELSE IF f \in upd.set THEN upd.event[f]
             ELSE IF f = "activityLog" THEN current.activityLog \o upd.push
             ELSE current[f]])

\* server.js:1017 event.save(): a save that replaces a whole array carries the
\* version key the document was loaded with and is rejected (VersionError) when
\* the stored document has another one, or is gone
saveRejected(current, upd, loadedVersion) ==
  ~current.exists \/ (upd.where /\ current.v # loadedVersion)

\* server.js:933-1023
PutCollaborate(actor, cid, body) ==
  LET userId == Field(body, "userId", Null)
      email == normEmail(Field(body, "email", <<>>))
      id == FindCollaborative(cid)
      ev == events[id]
      upd == CollabUpdate(ev, body)
      event == applySave(ev, upd)
  IN /\ IF ~mongoConnected
        THEN /\ resp' = [Response("putCollaborate", 503, Null, 0) EXCEPT !.cid = cid, !.actor = actor]
             /\ UNCHANGED events
        ELSE IF ~Truthy(userId) /\ email = <<>>
        THEN /\ resp' = [Response("putCollaborate", 400, Null, 0) EXCEPT !.cid = cid, !.actor = actor]
             /\ UNCHANGED events
        ELSE IF id = 0
        THEN /\ resp' = [Response("putCollaborate", 404, Null, 0) EXCEPT !.cid = cid, !.actor = actor]
             /\ UNCHANGED events
        ELSE IF ~HasEditPermission(ev, userId, email)
        THEN /\ resp' = [Response("putCollaborate", 403, userId, id) EXCEPT !.email = email, !.cid = cid, !.actor = actor]
             /\ UNCHANGED events
        ELSE /\ Bounded(id, event)
             /\ IF DuplicateKey(id, event)
                THEN /\ resp' = [Response("putCollaborate", 500, userId, id) EXCEPT !.email = email, !.cid = cid, !.actor = actor]
                     /\ UNCHANGED events
                ELSE /\ events' = [events EXCEPT ![id] = event]
                     /\ resp' = [Response("putCollaborate", 200, userId, id) EXCEPT !.email = email, !.cid = cid, !.actor = actor]
     /\ UNCHANGED <<mongoConnected, nextEvent, fresh, now, users, outbox, revoked, shareView, clients, plans, policies>>
     /\ optedOut' = IF resp'.status = 200 /\ OptsIn(body) THEN optedOut \ {id} ELSE optedOut

\* ----------------------------------- POST /api/collaborate/:collaborationId/join
\* an invitation nobody has taken up yet matches any requester
FindInvited_orUnbound(ev, userId, email) ==
  FindIndex(ev.collaborators,
            LAMBDA c : \/ normEmail(c.email) = email
                       \/ ~Truthy(c.userId)
                       \/ Truthy(userId) /\ Truthy(c.userId) /\ c.userId = userId)

\* a lookup that takes the first entry of the list, whoever asks
FindInvited_first(ev, userId, email) == IF ev.collaborators # <<>> THEN 1 ELSE 0

\* server.js:1203-1205
FindInvited(ev, userId, email) ==
  FindIndex(ev.collaborators,
            LAMBDA c : \/ normEmail(c.email) = email
                       \/ Truthy(userId) /\ Truthy(c.userId) /\ c.userId = userId)

\* server.js:1178-1234
JoinCollaboration(cid, body) ==
  LET userId == Field(body, "userId", Null)
      email == normEmail(Field(body, "email", <<>>))
      firstName == Field(body, "firstName", "")
      lastName == Field(body, "lastName", "")
      id == FindCollaborative(cid)
      ev == events[id]
      ci == FindInvited(ev, userId, email)
      event == preSave([ev EXCEPT
                 !.collaborators[ci].userId = IF ~Truthy(@) /\ Truthy(userId) THEN userId ELSE @,
                 !.collaborators[ci].firstName = firstName,
                 !.collaborators[ci].lastName = lastName,
                 !.collaborators[ci].lastActive = now,
                 !.activityLog = Append(@, LogEntry(IF Truthy(userId) THEN userId ELSE Null, "joined"))])
  IN /\ IF ~mongoConnected
        THEN /\ resp' = [Response("join", 503, Null, 0) EXCEPT !.cid = cid]
             /\ UNCHANGED events
        ELSE IF email = <<>> \/ ~Truthy(firstName) \/ ~Truthy(lastName)
        THEN /\ resp' = [Response("join", 400, Null, 0) EXCEPT !.cid = cid]
             /\ UNCHANGED events
        ELSE IF id = 0
        THEN /\ resp' = [Response("join", 404, Null, 0) EXCEPT !.cid = cid]
             /\ UNCHANGED events
        ELSE IF ci = 0
        THEN /\ resp' = [Response("join", 403, userId, id) EXCEPT !.email = email, !.cid = cid]
             /\ UNCHANGED events
        ELSE /\ Bounded(id, event)
             /\ events' = [events EXCEPT ![id] = event]
             /\ resp' = [Response("join", 200, userId, id) EXCEPT !.email = email, !.cid = cid]
     /\ UNCHANGED <<mongoConnected, nextEvent, fresh, now, users, outbox, revoked, shareView, clients, optedOut, plans, policies>>

\* ------------------------------------------------------ PUT /api/events/:id
Min(a, b) == IF a < b THEN a ELSE b

\* String.prototype.includes
includes(s, t) == \E i \in 0..(Len(s) - Len(t)) : SubSeq(s, i + 1, i + Len(t)) = t

\* String.prototype.substring(0, n)
substring(s, n) == SubSeq(s, 1, Min(Len(s), n))

\* server.js:599-604
sameTask(existingItem, newItem) ==
  \/ includes(toLowerCase(existingItem.task), substring(toLowerCase(newItem.task), TASK_PREFIX))
  \/ includes(toLowerCase(newItem.task), substring(toLowerCase(existingItem.task), TASK_PREFIX))

\* server.js:575-620: the checklist the update stores, <<"keep">> when the
\* handler deletes updateData.checklist
mergeChecklist(existingChecklist, checklist) ==
  IF Len(checklist) = Len(existingChecklist)
  THEN <<"set", checklist>>
  ELSE LET newItems == SelectSeq(checklist,
                         LAMBDA newItem : ~\E i \in 1..Len(existingChecklist) :
                                              sameTask(existingChecklist[i], newItem))
       IN IF Len(newItems) > 0 THEN <<"set", existingChecklist \o newItems>> ELSE <<"keep">>

\* server.js:624-628 runValidators: the validators of models.js:231, 233, 260,
\* 297 accept the paths the update sets
updateValidates(updateData) ==
  /\ "title" \in DOMAIN updateData => Truthy(updateData.title)
  /\ "userId" \in DOMAIN updateData => Truthy(updateData.userId)
  /\ "checklist" \in DOMAIN updateData
        => \A i \in DOMAIN updateData.checklist : updateData.checklist[i].task # <<>>
  /\ ("notifications" \in DOMAIN updateData /\ "reminderDays" \in DOMAIN updateData.notifications)
        => /\ updateData.notifications.reminderDays >= MIN_REMINDER_DAYS
           /\ updateData.notifications.reminderDays <= MAX_REMINDER_DAYS

\* server.js:553-636; the route has no mongoConnected guard, an unconnected
\* Event.findById rejects and the catch answers 400
updateEvent(id, who, body) ==
  LET existingEvent == events[id]
      merged == IF "checklist" \in DOMAIN body
                THEN mergeChecklist(existingEvent.checklist, body.checklist)
                ELSE <<"keep">>
      updateData ==
        [f \in (DOMAIN body \ (IF merged[1] = "keep" THEN {"checklist"} ELSE {})) |->
           IF f = "notifications" THEN body.notifications @@ existingEvent.notifications
           ELSE IF f = "checklist" THEN merged[2]
           ELSE body[f]]
      event == [Assign(existingEvent, updateData) EXCEPT !.updatedAt = now]
  IN /\ IF ~mongoConnected
        THEN /\ resp' = Response("putEvent", 400, Null, id)
             /\ UNCHANGED events
        ELSE IF ~existingEvent.exists
        THEN /\ resp' = Response("putEvent", 404, Null, id)
             /\ UNCHANGED events
        ELSE /\ Bounded(id, event)
             /\ IF ~updateValidates(updateData) \/ DuplicateKey(id, event)
                THEN /\ resp' = Response("putEvent", 400, Null, id)
                     /\ UNCHANGED events
                ELSE /\ events' = [events EXCEPT ![id] = event]
                     /\ resp' = Response("putEvent", 200, who, id)
     /\ UNCHANGED <<mongoConnected, nextEvent, fresh, now, users, outbox, revoked, shareView, plans, policies>>
     /\ optedOut' = IF resp'.status = 200 /\ OptsIn(body) THEN optedOut \ {id} ELSE optedOut

\* a PUT /api/events/:id whose sender keeps no copy of the event
PutEvent(id, who, body) == updateEvent(id, who, body) /\ UNCHANGED clients

\* server.js:638-648
DeleteEvent(id, who) ==
  /\ IF ~mongoConnected
     THEN /\ resp' = Response("deleteEvent", 500, Null, id)
          /\ UNCHANGED events
     ELSE IF ~events[id].exists
     THEN /\ resp' = Response("deleteEvent", 404, Null, id)
          /\ UNCHANGED events
     ELSE /\ events' = [events EXCEPT ![id] = NoEvent]
          /\ resp' = Response("deleteEvent", 200, who, id)
  /\ UNCHANGED <<mongoConnected, nextEvent, fresh, now, users, outbox, revoked, shareView, clients, plans, policies>>
  /\ optedOut' = IF resp'.status = 200 THEN optedOut \ {id} ELSE optedOut

\* ------------------------------------------------------------ public sharing
hasShareLink_never(ev) == FALSE

\* server.js:663  !(!event.shareEnabled || !event.shareId)
hasShareLink(ev) == ev.shareEnabled /\ ev.shareId \notin {Absent, NoToken}

\* server.js:652-680
ShareEvent(id, who) ==
  LET ev == events[id]
      token == fresh + 1
      event == preSave([ev EXCEPT !.shareId = token, !.shareEnabled = TRUE])
  IN /\ IF ~mongoConnected
        THEN /\ resp' = Response("share", 503, Null, id)
             /\ UNCHANGED <<events, fresh>>
        ELSE IF ~ev.exists
        THEN /\ resp' = Response("share", 404, Null, id)
             /\ UNCHANGED <<events, fresh>>
        ELSE IF hasShareLink(ev)
        THEN /\ resp' = ResponseWith("share", 200, who, id, [shareId |-> ev.shareId])
             /\ UNCHANGED <<events, fresh>>
        ELSE /\ fresh < MaxFresh
             /\ fresh' = token
             /\ IF DuplicateKey(id, event)
                THEN /\ resp' = Response("share", 500, Null, id)
                     /\ UNCHANGED events
                ELSE /\ events' = [events EXCEPT ![id] = event]
                     /\ resp' = ResponseWith("share", 200, who, id, [shareId |-> token])
     /\ UNCHANGED <<mongoConnected, nextEvent, now, users, outbox, revoked, shareView, clients, optedOut, plans, policies>>

\* .lean(): the stored fields of the document
lean(ev) ==
  Omit(ev, {"exists"} \cup (IF ev.collaborationId = Absent THEN {"collaborationId"} ELSE {})
                      \cup (IF ev.shareId = Absent THEN {"shareId"} ELSE {}))

\* server.js:695-696  const { _id, userId, __v, ...publicEvent } = event
publicEvent(id, ev) == Omit(lean(ev), {"userId", "v"}) @@ [id |-> id]

\* server.js:683-705; holder tells whether the reader is the share-link holder
\* whose knowledge shareView records
GetPublicEvent(shareId, holder) ==
  LET found == {id \in Existing : events[id].shareId = shareId /\ events[id].shareEnabled}
      id == CHOOSE i \in found : TRUE
      body == publicEvent(id, events[id])
  IN /\ IF ~mongoConnected
        THEN /\ resp' = Response("getPublic", 503, Null, 0)
             /\ UNCHANGED shareView
        ELSE IF found = {}
        THEN /\ resp' = Response("getPublic", 404, Null, 0)
             /\ UNCHANGED shareView
        ELSE /\ resp' = ResponseWith("getPublic", 200, Null, id, body)
             /\ shareView' = IF holder THEN body ELSE shareView
     /\ UNCHANGED <<mongoConnected, events, nextEvent, fresh, now, users, outbox, revoked, clients, optedOut, plans, policies>>

\* ------------------------------------------ GET /api/collaborate/:collaborationId
\* server.js:788-827
GetCollaborative(cid) ==
  LET id == FindCollaborative(cid)
      ev == events[id]
      ownerId == IF Truthy(ev.owner) THEN ev.owner ELSE ev.userId
      ownerInfo == IF ownerId \in UserIds /\ users[ownerId].exists
                   THEN [id |-> ownerId, email |-> toLowerCase(trim(users[ownerId].email))]
                   ELSE [id |-> Null, email |-> <<>>]
  IN /\ IF ~mongoConnected
        THEN resp' = [Response("getCollaborative", 503, Null, 0) EXCEPT !.cid = cid]
        ELSE IF id = 0
        THEN resp' = [Response("getCollaborative", 404, Null, 0) EXCEPT !.cid = cid]
        ELSE resp' = [ResponseWith("getCollaborative", 200, Null, id,
                                   [ownerInfo |-> ownerInfo]) EXCEPT !.cid = cid]
     /\ UNCHANGED <<mongoConnected, events, nextEvent, fresh, now, users, outbox, revoked, shareView, clients, optedOut, plans, policies>>

\* server.js:1238-1263 (the log entries of the model carry no timestamp: the
\* newest-first order is the reverse of the stored order)
GetActivity(cid) ==
  LET id == FindCollaborative(cid)
      log == events[id].activityLog
  IN /\ IF ~mongoConnected
        THEN resp' = [Response("getActivity", 503, Null, 0) EXCEPT !.cid = cid]
        ELSE IF id = 0
        THEN resp' = [Response("getActivity", 404, Null, 0) EXCEPT !.cid = cid]
        ELSE resp' = [ResponseWith("getActivity", 200, Null, id,
                        [activityLog |-> [i \in 1..Min(Len(log), ACTIVITY_LIMIT) |->
                                            log[Len(log) + 1 - i]]])
                      EXCEPT !.cid = cid]
     /\ UNCHANGED <<mongoConnected, events, nextEvent, fresh, now, users, outbox, revoked, shareView, clients, optedOut, plans, policies>>

\* ------------------------------------------------------ POST /api/auth/login
NumUsers == Cardinality({u \in UserIds : users[u].exists})

\* 'temp-' + vanderbiltId
TempId(v) == CASE v = "v1" -> "temp-v1" [] v = "v2" -> "temp-v2" [] OTHER -> "temp-"

missingFields_idOnly(body) == ~Truthy(body.vanderbiltId)

\* server.js:48  !vanderbiltId || !email || !firstName || !lastName
missingFields(body) ==
  \/ ~Truthy(body.vanderbiltId) \/ body.email = <<>>
  \/ ~Truthy(body.firstName) \/ ~Truthy(body.lastName)

\* server.js:49, 84-85: the two answers of the login handler
loginRefused(body) == ResponseWith("login", 400, Null, 0, [request |-> body])
loginAnswer(body, user) ==
  ResponseWith("login", 200, Null, 0, [user |-> user, token |-> "mock-jwt-token", request |-> body])

\* server.js:62-69, 73-80
fallbackUser(body) ==
  [exists |-> TRUE, id |-> TempId(body.vanderbiltId), vanderbiltId |-> body.vanderbiltId, email |-> body.email,
   firstName |-> body.firstName, lastName |-> body.lastName,
   role |-> IF Truthy(body.role) THEN body.role ELSE "student"]

userSaveRejected_noIndex(body) == body.role \notin {"student", "staff"}

\* models.js:120-128: user.save() fails on an invalid role and on the unique
\* indexes of vanderbiltId and email
userSaveRejected(body) ==
  \/ body.role \notin {"student", "staff"}
  \/ \E u \in UserIds : /\ users[u].exists
                         /\ \/ users[u].vanderbiltId = body.vanderbiltId
                            \/ users[u].email = body.email

\* server.js:44-89
Login(body) ==
  LET found == {u \in UserIds : users[u].exists /\ users[u].vanderbiltId = body.vanderbiltId}
      uid == UserIdSeq[NumUsers + 1]
      user == [exists |-> TRUE, id |-> uid, vanderbiltId |-> body.vanderbiltId,
               email |-> body.email, firstName |-> body.firstName,
               lastName |-> body.lastName, role |-> body.role]
  IN /\ IF missingFields(body)
        THEN /\ resp' = loginRefused(body)
             /\ UNCHANGED users
        ELSE IF ~mongoConnected
        THEN /\ resp' = loginAnswer(body, fallbackUser(body))
             /\ UNCHANGED users
        ELSE IF found # {}
        THEN /\ resp' = loginAnswer(body, users[CHOOSE u \in found : TRUE])
             /\ UNCHANGED users
        ELSE IF userSaveRejected(body)
        THEN /\ resp' = loginAnswer(body, fallbackUser(body))
             /\ UNCHANGED users
        ELSE /\ NumUsers < Len(UserIdSeq)
             /\ users' = [users EXCEPT ![uid] = user]
             /\ resp' = loginAnswer(body, user)
     /\ UNCHANGED <<mongoConnected, events, nextEvent, fresh, now, outbox, revoked, shareView, clients, optedOut, plans, policies>>

\* the same handler when requests overlap: request c runs up to the await of
\* User.findOne (server.js:55) and, when nobody is found, goes on to
\* new User(...).save() (server.js:56-58) in a later step
saves(body) ==
  /\ ~missingFields(body)
  /\ mongoConnected
  /\ ~\E u \in UserIds : users[u].exists /\ users[u].vanderbiltId = body.vanderbiltId

LoginFind(c, body) ==
  /\ clients[c] = NoTab
  /\ IF saves(body)
     THEN /\ clients' = [clients EXCEPT ![c].put = [phase |-> "login", body |-> body]]
          /\ UNCHANGED <<mongoConnected, events, nextEvent, fresh, now, resp, users, outbox,
                         revoked, shareView, optedOut, plans, policies>>
     ELSE Login(body)

LoginSave(c) ==
  /\ clients[c].put # NoBody
  /\ clients[c].put.phase = "login"
  /\ LET body == clients[c].put.body
         uid == UserIdSeq[NumUsers + 1]
         user == [exists |-> TRUE, id |-> uid, vanderbiltId |-> body.vanderbiltId,
                  email |-> body.email, firstName |-> body.firstName,
                  lastName |-> body.lastName, role |-> body.role]
     IN IF userSaveRejected(body)
        THEN /\ resp' = loginAnswer(body, fallbackUser(body))
             /\ UNCHANGED users
        ELSE /\ NumUsers < Len(UserIdSeq)
             /\ users' = [users EXCEPT ![uid] = user]
             /\ resp' = loginAnswer(body, user)
  /\ clients' = [clients EXCEPT ![c] = NoTab]
  /\ UNCHANGED <<mongoConnected, events, nextEvent, fresh, now, outbox, revoked, shareView,
                 optedOut, plans, policies>>

\* ------------------------------------------------- plans, policies and chat
\* category labels, titles and chat messages are strings, modelled as tuples of
\* words; includes() then compares whole words
ProgramTypes == {"mixer", "concert", "workshop", "lecture", "other"}
Campuses == {"on-campus", "off-campus"}

NumPlans == Cardinality({p \in PlanIds : plans[p].exists})

\* server.js:101-109  new ProgramPlan(req.body).save()
CreatePlan(body) ==
  LET id == NumPlans + 1
      plan == [exists |-> TRUE, userId |-> body.userId, title |-> body.title,
               programType |-> body.programType, location |-> body.location,
               hasAlcohol |-> Field(body, "hasAlcohol", FALSE), turns |-> 0]
      valid == /\ mongoConnected
               /\ Truthy(body.userId) /\ Truthy(body.title)
               /\ body.programType \in ProgramTypes
               /\ body.location.type \in Campuses
  IN /\ NumPlans < MaxPlans
     /\ IF valid
        THEN /\ plans' = [plans EXCEPT ![id] = plan]
             /\ resp' = ResponseWith("createPlan", 200, body.userId, id, NoBody)
        ELSE /\ resp' = ResponseWith("createPlan", 400, body.userId, 0, NoBody)
             /\ UNCHANGED plans
     /\ UNCHANGED <<mongoConnected, events, nextEvent, fresh, now, users, outbox, revoked,
                    shareView, clients, optedOut, policies>>

\* database/seed.js:215-222  Policy.deleteMany({}) then Policy.insertMany(docs)
SeedPolicies(docs) ==
  /\ policies' = docs
  /\ resp' = Response("seed", 0, Null, 0)
  /\ UNCHANGED <<mongoConnected, events, nextEvent, fresh, now, users, outbox, revoked,
                 shareView, clients, optedOut, plans>>

\* server.js:120-124: some of the keywords MSG_RE looks for, ignoring case
AlcoholWords == {"alcohol", "beer", "wine"}
TechWords == {"email", "wifi", "password"}
MinorsWords == {"minors", "youth", "camp"}

Mentions(message, words) == \E i \in 1..Len(message) : Lower(message[i]) \in words

\* server.js:126-134
isAlcoholRelevant(message, plan) == Mentions(message, AlcoholWords) \/ (plan.exists /\ plan.hasAlcohol)
isTechRelevant(message) == Mentions(message, TechWords)
isMinorsRelevant(message) == Mentions(message, MinorsWords)

\* server.js:136-199: the policies put into the context, in order; <<>> is '';
\* all is the result of Policy.find()
buildPolicyContext(all, user, plan, message) ==
  LET programType == IF plan.exists THEN plan.programType ELSE "other"
      role == Lower(IF user.exists /\ Truthy(user.role) THEN user.role ELSE "both")
      campus == IF plan.exists THEN plan.location.type ELSE "on-campus"
      want ==
        (IF campus = "on-campus" THEN {<<"Use", "of", "Space">>, <<"Space", "Booking">>} ELSE {})
        \cup {<<"Marketing", "and", "Communications">>, <<"Marketing">>}
        \cup (IF isAlcoholRelevant(message, plan) THEN {<<"Alcohol", "Policy">>, <<"Alcohol">>} ELSE {})
        \cup (IF isTechRelevant(message) THEN {<<"Technology">>, <<"Electronic", "Communications">>} ELSE {})
        \cup (IF isMinorsRelevant(message) THEN {<<"Protection", "of", "Minors">>} ELSE {})
      catOk(p) == \E w \in want : includes(toLowerCase(p.category), toLowerCase(w))
      visibility(p) == IF Truthy(p.roleVisibility) THEN p.roleVisibility ELSE "both"
      roleOk(p) == visibility(p) = "both" \/ visibility(p) = role
      typeOk(p) == p.programTypes = {} \/ programType \in p.programTypes
      relevant == SelectSeq(all, LAMBDA p : catOk(p) /\ roleOk(p) /\ typeOk(p))
  IN SubSeq(relevant, 1, Min(Len(relevant), POLICY_CAP))

\* server.js:201-280; role is the role of the user who sends the message from
\* the chat page, planId 0 is a request without a plan
Chat(role, message, planId) ==
  LET stored == planId \in PlanIds /\ mongoConnected /\ plans[planId].exists
      plan == IF stored THEN plans[planId] ELSE NoPlan
      user == NoUser
      policyContext == IF mongoConnected THEN buildPolicyContext(policies, user, plan, message) ELSE <<>>
      request == [role |-> role, message |-> message, planId |-> planId]
  IN /\ IF message = <<>>
        THEN /\ resp' = ResponseWith("chat", 400, Null, 0, request)
             /\ UNCHANGED plans
        ELSE /\ resp' = ResponseWith("chat", 200, Null, 0,
                                      [policyContext |-> policyContext] @@ request)
             /\ IF stored
                THEN /\ plans[planId].turns < MaxTurns
                     /\ plans' = [plans EXCEPT ![planId].turns = @ + 1]
                ELSE UNCHANGED plans
     /\ UNCHANGED <<mongoConnected, events, nextEvent, fresh, now, users, outbox, revoked,
                    shareView, clients, optedOut, policies>>

\* ------------------------------------------------------- e-mail reminders
\* server.js:1302-1306: the HMAC of 'userId|eventId' under the server secret
signUnsubscribe(userId, eventId) == <<"hmac", userId, eventId>>

\* models.js:233, 231, 297: what EventSchema's validators accept on save()
validates(ev) ==
  /\ Truthy(ev.title)
  /\ Truthy(ev.userId)
  /\ "reminderDays" \in DOMAIN ev.notifications
        => /\ ev.notifications.reminderDays >= MIN_REMINDER_DAYS
           /\ ev.notifications.reminderDays <= MAX_REMINDER_DAYS

unsubscribed_reset(n) == [emailOptIn |-> FALSE]

\* server.js:1319  { ...(event.notifications || {}), emailOptIn: false }
unsubscribed(n) == [emailOptIn |-> FALSE] @@ n

\* server.js:1308-1326; a missing query parameter is "" (uid), 0 (eid), <<>> (sig);
\* BadId is an eid that is not an ObjectId, for which findById throws
Unsubscribe(uid, eid, sig) ==
  LET ev == events[eid]
      event == preSave([ev EXCEPT !.notifications = unsubscribed(ev.notifications)])
      request == [sig |-> sig]
  IN /\ IF uid = "" \/ eid = 0 \/ sig = <<>>
        THEN /\ resp' = ResponseWith("unsubscribe", 400, uid, eid, request)
             /\ UNCHANGED events
        ELSE IF sig # signUnsubscribe(uid, eid)
        THEN /\ resp' = ResponseWith("unsubscribe", 400, uid, eid, request)
             /\ UNCHANGED events
        ELSE IF ~mongoConnected
        THEN /\ resp' = ResponseWith("unsubscribe", 503, uid, eid, request)
             /\ UNCHANGED events
        ELSE IF eid = BadId
        THEN /\ resp' = ResponseWith("unsubscribe", 500, uid, eid, request)
             /\ UNCHANGED events
        ELSE IF eid \notin EventIds \/ ~ev.exists \/ ev.userId # uid
        THEN /\ resp' = ResponseWith("unsubscribe", 404, uid, eid, request)
             /\ UNCHANGED events
        ELSE IF ~validates(event)
        THEN /\ resp' = ResponseWith("unsubscribe", 500, uid, eid, request)
             /\ UNCHANGED events
        ELSE /\ events' = [events EXCEPT ![eid] = event]
             /\ resp' = ResponseWith("unsubscribe", 200, uid, eid, request)
     /\ UNCHANGED <<mongoConnected, nextEvent, fresh, now, users, outbox, revoked, shareView, clients, plans, policies>>
     /\ optedOut' = IF resp'.status = 200 THEN optedOut \cup {eid} ELSE optedOut

\* calendar day of an instant, and the bounds of a calendar day
DayOf(t) == t \div DayLen
StartOfDay(d) == d * DayLen
EndOfDay(d) == d * DayLen + (DayLen - 1)

\* server.js:1365  ev.notifications?.reminderDays || 5
reminderDaysOf(ev) ==
  IF "reminderDays" \in DOMAIN ev.notifications /\ ev.notifications.reminderDays # 0
  THEN ev.notifications.reminderDays ELSE DEFAULT_REMINDER_DAYS

\* server.js:1366-1375: the positions of the checklist items that are due
dueTasks(ev, t) ==
  LET target == DayOf(t) + reminderDaysOf(ev)
      start == StartOfDay(target)
      end == EndOfDay(target)
  IN SelectSeq([i \in 1..Len(ev.checklist) |-> i],
               LAMBDA i : LET it == ev.checklist[i]
                          IN /\ ~it.isTimeHeader
                             /\ ~it.completed
                             /\ it.dueDate # NoDate
                             /\ it.dueDate >= start /\ it.dueDate <= end)

\* server.js:1361  Event.find({ 'notifications.emailOptIn': { $ne: false } })
optedIn(ev) == ~("emailOptIn" \in DOMAIN ev.notifications /\ ev.notifications.emailOptIn = FALSE)

\* server.js:1363-1385: the loop from event i on; failing are the events whose
\* sendMail rejects, which ends the loop through the outer catch
RECURSIVE reminderLoop(_, _, _)
reminderLoop(i, t, failing) ==
  IF i > MaxEvents THEN <<>>
  ELSE LET ev == events[i]
       IN IF ~ev.exists \/ ~optedIn(ev) THEN reminderLoop(i + 1, t, failing)
          ELSE IF dueTasks(ev, t) = <<>> THEN reminderLoop(i + 1, t, failing)
          ELSE IF ~(ev.userId \in UserIds /\ users[ev.userId].exists
                                          /\ users[ev.userId].email # <<>>)
          THEN reminderLoop(i + 1, t, failing)
          ELSE LET mail == [to |-> users[ev.userId].email, eid |-> i,
                            tasks |-> dueTasks(ev, t), reminderDays |-> reminderDaysOf(ev),
                            delivered |-> i \notin failing]
               IN IF i \in failing THEN <<mail>>
                  ELSE <<mail>> \o reminderLoop(i + 1, t, failing)

\* server.js:1357-1389
ReminderRun(failing) ==
  /\ outbox' = IF mongoConnected THEN reminderLoop(1, now, failing) ELSE <<>>
  /\ resp' = ResponseWith("cron", 0, Null, 0, [ranAt |-> now, failing |-> failing])
  /\ UNCHANGED <<mongoConnected, events, nextEvent, fresh, now, users, revoked, shareView, clients, optedOut, plans, policies>>

\* the clock
Tick ==
  /\ now < MaxDay * DayLen + (DayLen - 1)
  /\ now' = now + 1
  /\ UNCHANGED <<mongoConnected, events, nextEvent, fresh, resp, users, outbox, revoked, shareView, clients, optedOut, plans, policies>>

\* ------------------------------------------------------------ request inputs
Parties == {"u1", "u3"}              \* the creator of the events, and a stranger
TokenInputs == 1..MaxFresh           \* tokens and subdocument ids a request may name

Checklist0 == <<Item(<<"a">>, FALSE, FALSE, NoDate), Item(<<"b">>, FALSE, FALSE, NoDate)>>

CreateBodies ==
  {[userId |-> "u1", title |-> "t1", checklist |-> Checklist0],
   [userId |-> Null, title |-> "t1"]}

AddBody(email, firstName, permission) ==
  [email |-> email, firstName |-> firstName, lastName |-> "Lee", userId |-> Null,
   permission |-> permission]

AddBodies ==
  {AddBody(<<"a">>, "Ann", "view"), AddBody(<<" ", "A">>, "Ann", "edit"),
   AddBody(<<"b">>, "Bo", "edit"), AddBody(<<>>, "Ann", "edit"), AddBody(<<"a">>, "", "edit")}

JoinBody(userId, email, firstName) ==
  [userId |-> userId, email |-> email, firstName |-> firstName, lastName |-> "Lee"]

JoinBodies ==
  {JoinBody("u2", <<"A">>, "Anna"), JoinBody(Null, <<"b">>, "Bo"),
   JoinBody("u3", <<"c">>, "Cy"), JoinBody("u2", <<>>, "Anna"), JoinBody("u2", <<"A">>, "")}

Toggle(checklist, i) == [checklist EXCEPT ![i].completed = ~@]

\* the updates a collaborative PUT carries besides the sender's identity: the
\* checklist with one item toggled, a new title
ContentUpdates(ev) ==
  {[checklist |-> Toggle(ev.checklist, i)] : i \in {1} \cap DOMAIN ev.checklist}
    \cup {[title |-> "t2"]}

\* and fields the pages never send
CollabUpdates(ev) == ContentUpdates(ev) \cup {[owner |-> "u3"], [activityLog |-> <<>>]}

\* the owner, an invited e-mail address, a bound collaborator, a stranger, nobody
Identities ==
  {[userId |-> "u1", email |-> <<>>], [userId |-> Null, email |-> <<"A">>],
   [userId |-> "u2", email |-> <<>>], [userId |-> "u3", email |-> <<"c">>],
   [userId |-> Null, email |-> <<>>]}

EventBodies(ev) ==
  {[title |-> "t2"], [owner |-> "u3"]}
    \cup {[collaborationEnabled |-> TRUE, collaborationId |-> c] : c \in revoked}

\* the collaborationIds that are or were in use
CidInputs ==
  (revoked \cup {events[id].collaborationId : id \in Existing}) \ {Absent, NoToken}

\* --------------------------------- the collaborative page (Dashboard.jsx)
\* who a tab's user is and the checklist item that user toggles
TabEmail(c) == IF c = "tab1" THEN <<"a">> ELSE <<"b">>
TabItem(c) == IF c = "tab1" THEN 1 ELSE 2

InFlight(c) == "phase" \in DOMAIN clients[c].put /\ clients[c].put.phase = "loaded"

\* Dashboard.jsx:349-354 loadEvent (on mount, every 5 s, and after a failed
\* update): the page's copy becomes what GET /api/collaborate/:id returns; a
\* page shows the one collaborationId of its address
ClientLoad(c, cid) ==
  LET id == FindCollaborative(cid)
  IN /\ clients[c].cid \in {Absent, cid}
     /\ mongoConnected
     /\ id # 0
     /\ clients' = [clients EXCEPT ![c].cid = cid, ![c].checklist = events[id].checklist]
     /\ resp' = [Response("getCollaborative", 200, Null, id) EXCEPT !.cid = cid]
     /\ UNCHANGED <<mongoConnected, events, nextEvent, fresh, now, users, outbox, revoked, shareView, optedOut, plans, policies>>

\* Dashboard.jsx:513-546 toggleChecklistItem sends the page's whole checklist
\* with one item toggled; server.js:933-1015: the handler loads the document and
\* changes it in memory, up to its call of save()
PutLoad(c) ==
  LET tab == clients[c]
      checklist == Toggle(tab.checklist, TabItem(c))
      body == [checklist |-> checklist, userId |-> Null, email |-> TabEmail(c)]
      id == FindCollaborative(tab.cid)
      ev == events[id]
      request == [phase |-> "done", base |-> tab.checklist, body |-> body, eid |-> id,
                  status |-> 0, version |-> 0, upd |-> NoBody]
      answer(status) ==
        /\ clients' = [clients EXCEPT ![c].sent = @ + 1, ![c].put = [request EXCEPT !.status = status]]
        /\ resp' = [Response("putCollaborate", status, Null, id)
                      EXCEPT !.email = TabEmail(c), !.cid = tab.cid]
  IN /\ tab.cid # Absent
     /\ ~InFlight(c)
     /\ TabItem(c) \in DOMAIN tab.checklist
     /\ tab.sent < MaxToggles
     /\ IF ~mongoConnected THEN answer(503)
        ELSE IF id = 0 THEN answer(404)
        ELSE IF ~HasEditPermission(ev, Null, TabEmail(c)) THEN answer(403)
        ELSE /\ clients' = [clients EXCEPT
                  ![c].sent = @ + 1,
                  ![c].put = [request EXCEPT !.phase = "loaded", !.version = ev.v,
                                             !.upd = CollabUpdate(ev, body)]]
             /\ UNCHANGED resp
     /\ UNCHANGED <<mongoConnected, events, nextEvent, fresh, now, users, outbox, revoked, shareView, optedOut, plans, policies>>

\* server.js:1017-1022: save() and the answer; Dashboard.jsx:547-555: on success
\* the page keeps the checklist it sent, on failure it alerts and reloads
PutSave(c) ==
  LET put == clients[c].put
      current == events[put.eid]
      done(status, version) ==
        /\ clients' = [clients EXCEPT
                  ![c].put = [put EXCEPT !.phase = "done", !.status = status, !.version = version,
                                         !.upd = NoBody],
                  ![c].checklist = IF status = 200 THEN put.body.checklist ELSE @]
        /\ resp' = [Response("putCollaborate", status, Null, put.eid)
                      EXCEPT !.email = TabEmail(c), !.cid = clients[c].cid]
  IN /\ InFlight(c)
     /\ IF saveRejected(current, put.upd, put.version)
        THEN done(500, put.version) /\ UNCHANGED events
        ELSE /\ events' = [events EXCEPT ![put.eid] = applySave(current, put.upd)]
             /\ done(200, events'[put.eid].v)
     /\ UNCHANGED <<mongoConnected, nextEvent, fresh, now, users, outbox, revoked, shareView, optedOut, plans, policies>>

\* ------------------------------ handlers between their load and their save
\* server.js:832-858: the add-collaborator request passes every check on the
\* document it has loaded
adds(id, body) ==
  /\ mongoConnected
  /\ normEmail(body.email) # <<>> /\ Truthy(body.firstName) /\ Truthy(body.lastName)
  /\ events[id].exists
  /\ events[id].collaborationEnabled
  /\ \A i \in DOMAIN events[id].collaborators :
        normEmail(events[id].collaborators[i].email) # normEmail(body.email)

\* server.js:831-883: the handler up to its call of save(); a request that fails
\* a check is answered at once
AddLoad(c, id, body) ==
  /\ clients[c] = NoTab
  /\ IF adds(id, body)
     THEN /\ clients' = [clients EXCEPT ![c].put = [phase |-> "add", eid |-> id, body |-> body]]
          /\ UNCHANGED <<mongoConnected, events, nextEvent, fresh, now, resp, users, outbox,
                         revoked, shareView, optedOut, plans, policies>>
     ELSE AddCollaborator(id, "u1", body)

\* server.js:885-886: save() sends $push of the new collaborator and of the new
\* log entry and $inc of the version key, with no condition on the version key,
\* and the handler answers
AddSave(c) ==
  /\ clients[c].put # NoBody
  /\ clients[c].put.phase = "add"
  /\ LET put == clients[c].put
         current == events[put.eid]
         oid == fresh + 1
         collaborator == Collaborator(oid, put.body.userId, normEmail(put.body.email),
                                      put.body.firstName, put.body.lastName, put.body.permission)
         event == preSave([current EXCEPT
                    !.collaborators = Append(@, collaborator),
                    !.activityLog = Append(@, LogEntry(current.userId, "added_collaborator")),
                    !.v = @ + 1])
     IN /\ fresh < MaxFresh
        /\ Bounded(put.eid, event)
        /\ fresh' = oid
        /\ events' = [events EXCEPT ![put.eid] = event]
        /\ resp' = ResponseWith("addCollaborator", 200, "u1", put.eid, [oid |-> oid])
  /\ clients' = [clients EXCEPT ![c] = NoTab]
  /\ UNCHANGED <<mongoConnected, nextEvent, now, users, outbox, revoked, shareView, optedOut,
                 plans, policies>>

\* server.js:1179-1209: the join request passes every check on the document it
\* has loaded
joins(cid, body) ==
  /\ mongoConnected
  /\ normEmail(Field(body, "email", <<>>)) # <<>>
  /\ Truthy(Field(body, "firstName", "")) /\ Truthy(Field(body, "lastName", ""))
  /\ FindCollaborative(cid) # 0
  /\ FindInvited(events[FindCollaborative(cid)], Field(body, "userId", Null),
                 normEmail(Field(body, "email", <<>>))) # 0

\* server.js:1178-1226: the handler up to its call of save()
JoinLoad(c, cid, body) ==
  /\ clients[c] = NoTab
  /\ IF joins(cid, body)
     THEN LET id == FindCollaborative(cid)
              userId == Field(body, "userId", Null)
              ci == FindInvited(events[id], userId, normEmail(Field(body, "email", <<>>)))
          IN /\ clients' = [clients EXCEPT ![c].put =
                  [phase |-> "join", eid |-> id, cid |-> cid, body |-> body, ci |-> ci,
                   version |-> events[id].v,
                   binds |-> ~Truthy(events[id].collaborators[ci].userId) /\ Truthy(userId)]]
             /\ UNCHANGED <<mongoConnected, events, nextEvent, fresh, now, resp, users, outbox,
                            revoked, shareView, optedOut, plans, policies>>
     ELSE JoinCollaboration(cid, body)

\* server.js:1228-1233: save() sends $set of the changed fields of the entry at
\* the position it had when loaded and $push of the log entry, on the condition
\* that the version key is the loaded one; a VersionError is answered 500
JoinSave(c) ==
  /\ clients[c].put # NoBody
  /\ clients[c].put.phase = "join"
  /\ LET put == clients[c].put
         current == events[put.eid]
         userId == Field(put.body, "userId", Null)
         answer(status) == [Response("join", status, userId, put.eid)
                              EXCEPT !.email = normEmail(put.body.email), !.cid = put.cid]
         event == preSave([current EXCEPT
                    !.collaborators[put.ci].userId = IF put.binds THEN userId ELSE @,
                    !.collaborators[put.ci].firstName = put.body.firstName,
                    !.collaborators[put.ci].lastName = put.body.lastName,
                    !.collaborators[put.ci].lastActive = now,
                    !.activityLog = Append(@, LogEntry(IF Truthy(userId) THEN userId ELSE Null,
                                                       "joined"))])
     IN IF ~current.exists \/ current.v # put.version
        THEN /\ resp' = answer(500)
             /\ UNCHANGED events
        ELSE /\ Bounded(put.eid, event)
             /\ events' = [events EXCEPT ![put.eid] = event]
             /\ resp' = answer(200)
  /\ clients' = [clients EXCEPT ![c] = NoTab]
  /\ UNCHANGED <<mongoConnected, nextEvent, fresh, now, users, outbox, revoked, shareView,
                 optedOut, plans, policies>>

\* --------------------------------------------------------------- the system
\* the whole collaboration API and the plain event update
Next ==
  \/ \E body \in CreateBodies : nextEvent < MaxShared /\ CreateEvent(body)
  \/ \E id \in EventIds, who \in Parties : EnableCollaboration(id, who)
  \/ \E id \in EventIds, who \in Parties : DisableCollaboration(id, who)
  \/ \E id \in EventIds, who \in Parties, body \in AddBodies : AddCollaborator(id, who, body)
  \/ \E id \in EventIds, who \in Parties, oid \in TokenInputs : RemoveCollaborator(id, who, oid)
  \/ \E cid \in CidInputs, ident \in Identities, id \in EventIds :
        /\ events[id].exists
        /\ \E upd \in CollabUpdates(events[id]) : PutCollaborate("client", cid, ident @@ upd)
  \/ \E cid \in CidInputs, body \in JoinBodies : JoinCollaboration(cid, body)
  \/ \E cid \in CidInputs : GetCollaborative(cid)
  \/ \E cid \in CidInputs : GetActivity(cid)
  \/ \E id \in EventIds, who \in Parties :
        /\ events[id].exists
        /\ \E body \in EventBodies(events[id]) : PutEvent(id, who, body)

Spec == Init /\ [][Next]_vars

\* inviting, joining and editing through the collaboration link
NextInvite ==
  \/ \E body \in CreateBodies : nextEvent < MaxShared /\ CreateEvent(body)
  \/ \E id \in EventIds : EnableCollaboration(id, "u1")
  \/ \E id \in EventIds, body \in AddBodies : AddCollaborator(id, "u1", body)
  \/ \E cid \in CidInputs, ident \in Identities, id \in EventIds :
        /\ events[id].exists
        /\ \E upd \in ContentUpdates(events[id]) : PutCollaborate("client", cid, ident @@ upd)
  \/ \E cid \in CidInputs, body \in JoinBodies : JoinCollaboration(cid, body)

SpecInvite == Init /\ [][NextInvite]_vars

\* the share link: its holder reads the public view and then uses what the
\* view shows (the collaborationId, the owner's id, a collaborator's e-mail
\* address) in a collaborative PUT
ShareHolderPut ==
  /\ "collaborationId" \in DOMAIN shareView
  /\ \E ident \in ({[userId |-> shareView.owner, email |-> <<>>] : x \in {1} \cap
                       (IF "owner" \in DOMAIN shareView THEN {1} ELSE {})}
                   \cup {[userId |-> Null, email |-> shareView.collaborators[i].email] :
                           i \in (IF "collaborators" \in DOMAIN shareView
                                  THEN DOMAIN shareView.collaborators ELSE {})}) :
        PutCollaborate("shareHolder", shareView.collaborationId, ident @@ [title |-> "t2"])

NextShare ==
  \/ \E body \in CreateBodies : nextEvent < MaxShared /\ CreateEvent(body)
  \/ \E id \in EventIds : ShareEvent(id, "u1")
  \/ \E id \in EventIds : EnableCollaboration(id, "u1")
  \/ \E id \in EventIds, body \in AddBodies : AddCollaborator(id, "u1", body)
  \/ \E id \in EventIds : DisableCollaboration(id, "u1")
  \/ \E id \in EventIds : DeleteEvent(id, "u1")
  \/ \E shareId \in TokenInputs, holder \in BOOLEAN : GetPublicEvent(shareId, holder)
  \/ ShareHolderPut

SpecShare == Init /\ [][NextShare]_vars

\* two collaborators toggling the checklist from two pages
RaceAddBodies == {AddBody(<<"a">>, "Ann", "edit"), AddBody(<<"b">>, "Bo", "edit")}

NextRace ==
  \/ \E body \in CreateBodies : nextEvent < MaxShared /\ CreateEvent(body)
  \/ \E id \in EventIds : EnableCollaboration(id, "u1")
  \/ \E id \in EventIds, body \in RaceAddBodies : AddCollaborator(id, "u1", body)
  \/ \E c \in ClientIds, cid \in CidInputs : ClientLoad(c, cid)
  \/ \E c \in ClientIds : PutLoad(c)
  \/ \E c \in ClientIds : PutSave(c)

SpecRace == Init /\ [][NextRace]_vars

\* the reminders: accounts, events with due dates, notification settings,
\* unsubscribe links and the daily run
CronLogin == [vanderbiltId |-> "v1", email |-> <<"x">>, firstName |-> "Ann", lastName |-> "Lee",
              role |-> "student"]

\* due at the start and at the end of day 1 and at the start of day 2, with a
\* header and a completed item among them
ChecklistSoon ==
  <<Item(<<"a">>, FALSE, FALSE, StartOfDay(1)), Item(<<"b">>, FALSE, FALSE, EndOfDay(1)),
    Item(<<"c">>, FALSE, FALSE, StartOfDay(2)), Item(<<"h">>, FALSE, TRUE, EndOfDay(1)),
    Item(<<"d">>, TRUE, FALSE, StartOfDay(1)), Item(<<"e">>, FALSE, FALSE, NoDate)>>

\* due on the default reminder day of a run on day 0 and of a run on day 1
ChecklistLater ==
  <<Item(<<"a">>, FALSE, FALSE, EndOfDay(DEFAULT_REMINDER_DAYS)),
    Item(<<"b">>, FALSE, FALSE, StartOfDay(DEFAULT_REMINDER_DAYS + 1))>>

CronCreateBodies ==
  {[userId |-> "u1", title |-> "t1", checklist |-> ChecklistSoon,
    notifications |-> [reminderDays |-> 1]],
   [userId |-> "u1", title |-> "t1", checklist |-> ChecklistLater],
   [userId |-> "u2", title |-> "t1", checklist |-> ChecklistLater]}

\* the settings the Saved Events page sends, and a lead time sent on its own
NotificationBodies ==
  {[notifications |-> [emailOptIn |-> TRUE, reminderDays |-> 1]],
   [notifications |-> [emailOptIn |-> FALSE, reminderDays |-> 1]]}

LeadTimeBody == [notifications |-> [reminderDays |-> 1]]

NextCron ==
  \/ Login(CronLogin)
  \/ \E body \in CronCreateBodies : CreateEvent(body)
  \/ \E id \in EventIds, body \in NotificationBodies : PutEvent(id, "u1", body)
  \/ \E failing \in {{}, {1}} : ReminderRun(failing)
  \/ Tick

SpecCron == Init /\ [][NextCron]_vars

\* unsubscribing, and the updates that follow it
NextOptOut ==
  \/ Login(CronLogin)
  \/ \E body \in CronCreateBodies : nextEvent < MaxShared /\ CreateEvent(body)
  \/ \E id \in EventIds, body \in NotificationBodies \cup {LeadTimeBody} : PutEvent(id, "u1", body)
  \/ \E id \in EventIds : EnableCollaboration(id, "u1")
  \/ \E cid \in CidInputs :
        PutCollaborate("client", cid, [userId |-> "u1", email |-> <<>>] @@ LeadTimeBody)
  \/ \E id \in EventIds :
        \E sig \in {signUnsubscribe("u1", id), <<"forged">>} : Unsubscribe("u1", id, sig)
  \/ ReminderRun({})
  \/ Tick

SpecOptOut == Init /\ [][NextOptOut]_vars

\* unsubscribe links, well formed and not, against events whose settings change
UnsubscribeUids == {"", "u1", "u2"}
UnsubscribeEids == {0, BadId} \cup EventIds
UnsubscribeSigs(uid, eid) ==
  {<<>>, <<"forged">>, signUnsubscribe(uid, eid), signUnsubscribe("u1", 1)}

UnsubscribeCreateBodies ==
  {[userId |-> "u1", title |-> "t1", checklist |-> ChecklistSoon,
    notifications |-> [reminderDays |-> 1]],
   [userId |-> "u2", title |-> "t1", checklist |-> ChecklistLater]}

OutOfRangeBody == [notifications |-> [reminderDays |-> MAX_REMINDER_DAYS + 1]]

NextUnsubscribe ==
  \/ \E body \in UnsubscribeCreateBodies : nextEvent < MaxShared /\ CreateEvent(body)
  \/ \E id \in EventIds, body \in {LeadTimeBody, OutOfRangeBody} : PutEvent(id, "u1", body)
  \/ \E uid \in UnsubscribeUids, eid \in UnsubscribeEids :
        \E sig \in UnsubscribeSigs(uid, eid) : Unsubscribe(uid, eid, sig)

SpecUnsubscribe == Init /\ [][NextUnsubscribe]_vars

\* chat requests of students and staff, with and without a plan, over policy
\* collections with role-restricted documents
Policy(category, title, roleVisibility, programTypes) ==
  [category |-> category, title |-> title, roleVisibility |-> roleVisibility,
   programTypes |-> programTypes]

StudentPolicy == Policy(<<"Marketing">>, "posting rules for students", "student", {})
StaffPolicy == Policy(<<"Marketing">>, "posting rules for staff", "staff", {})
SharedPolicy == Policy(<<"Space", "Booking">>, "reservations", "both", ProgramTypes)
MixerPolicy == Policy(<<"Alcohol">>, "alcohol at mixers", "student", {"mixer"})

\* database/seed.js:6-213: the seeded policies, in the order of insertion
POLICIES ==
  <<Policy(<<"Space", "Booking">>, "Use of University Space & Reservation Requirements", "both",
           {"mixer", "concert", "workshop", "lecture", "other"}),
    Policy(<<"Alcohol">>, "Alcohol at Events (Student Handbook & Student Centers)", "both",
           {"mixer", "concert", "lecture", "workshop"}),
    Policy(<<"Protection", "of", "Minors">>, "Youth Protection & Mandatory Reporting", "both",
           {"mixer", "concert", "workshop", "lecture", "other"}),
    Policy(<<"Marketing">>, "Marketing, Communications & Promotions", "both",
           {"mixer", "concert", "workshop", "lecture", "other"}),
    Policy(<<"Technology">>, "Acceptable Use of Technology Assets", "both",
           {"mixer", "concert", "workshop", "lecture", "other"}),
    Policy(<<"Technology">>, "Electronic Communications Policy", "both",
           {"mixer", "concert", "workshop", "lecture", "other"})>>

PolicyCollections ==
  {<<SharedPolicy>>, <<StudentPolicy, StaffPolicy, SharedPolicy>>, <<SharedPolicy, MixerPolicy>>,
   POLICIES}

ChatMessages == {<<>>, <<"hello">>, <<"Beer">>, <<"wifi", "for", "youth">>}

PlanBodies ==
  {[userId |-> "u1", title |-> "t1", programType |-> "mixer", location |-> [type |-> "on-campus"]],
   [userId |-> "u1", title |-> "t1", programType |-> "lecture",
    location |-> [type |-> "off-campus"], hasAlcohol |-> TRUE],
   [userId |-> "u1", title |-> "t1", programType |-> "party", location |-> [type |-> "on-campus"]]}
  \cup {[userId |-> "u1", title |-> "t1", programType |-> t, location |-> [type |-> c],
         hasAlcohol |-> a] : t \in ProgramTypes, c \in Campuses, a \in BOOLEAN}

NextChat ==
  \/ \E docs \in PolicyCollections : SeedPolicies(docs)
  \/ \E body \in PlanBodies : CreatePlan(body)
  \/ \E role \in {"student", "staff"}, message \in ChatMessages, planId \in {0} \cup PlanIds :
        Chat(role, message, planId)

SpecChat == Init /\ [][NextChat]_vars

\* share links and collaboration links, created, repeated, disabled and
\* overwritten by plain updates
LinkBodies == {[shareEnabled |-> FALSE], [collaborationEnabled |-> TRUE]}

NextLinks ==
  \/ \E body \in CreateBodies : nextEvent < MaxShared /\ CreateEvent(body)
  \/ \E id \in EventIds : ShareEvent(id, "u1")
  \/ \E id \in EventIds : EnableCollaboration(id, "u1")
  \/ \E id \in EventIds : DisableCollaboration(id, "u1")
  \/ \E id \in EventIds, body \in LinkBodies : PutEvent(id, "u1", body)

SpecLinks == Init /\ [][NextLinks]_vars

\* logins, overlapping or not, of two accounts and with requests that are
\* incomplete or carry another account's e-mail address or an unknown role
LoginBody(vanderbiltId, email, firstName, role) ==
  [vanderbiltId |-> vanderbiltId, email |-> email, firstName |-> firstName,
   lastName |-> "Lee", role |-> role]

LoginBodies ==
  {LoginBody("v1", <<"x">>, "Ann", "student"), LoginBody("v1", <<"y">>, "Anna", "staff"),
   LoginBody("v2", <<"x">>, "Bo", "staff"), LoginBody("v2", <<"z">>, "Bo", "admin"),
   LoginBody("v2", <<"z">>, "", "staff"), LoginBody("v2", <<"z">>, "Bo", "staff")}

NextLogin ==
  \/ \E c \in ClientIds, body \in LoginBodies : LoginFind(c, body)
  \/ \E c \in ClientIds : LoginSave(c)

SpecLogin == Init /\ [][NextLogin]_vars

\* edits through the collaboration link by the owner, collaborators and
\* strangers, with links that exist and links that do not, after the owner
\* field was changed by a plain update
NextEdit ==
  \/ \E body \in CreateBodies : nextEvent < MaxShared /\ CreateEvent(body)
  \/ \E id \in EventIds : EnableCollaboration(id, "u1")
  \/ \E id \in EventIds, body \in AddBodies : AddCollaborator(id, "u1", body)
  \/ \E id \in EventIds : PutEvent(id, "u1", [owner |-> "u3"])
  \/ \E cid \in TokenInputs, ident \in Identities :
        PutCollaborate("client", cid, ident @@ [title |-> "t2"])

SpecEdit == Init /\ [][NextEdit]_vars

\* inviting and joining, by e-mail address and by an already bound userId
NextJoin ==
  \/ \E body \in CreateBodies : nextEvent < MaxShared /\ CreateEvent(body)
  \/ \E id \in EventIds : EnableCollaboration(id, "u1")
  \/ \E id \in EventIds, body \in AddBodies : AddCollaborator(id, "u1", body)
  \/ \E cid \in TokenInputs, body \in JoinBodies \cup {JoinBody("u2", <<"c">>, "Anna")} :
        JoinCollaboration(cid, body)

SpecJoin == Init /\ [][NextJoin]_vars

\* requests on one event that overlap: two connections whose add-collaborator
\* and join requests have loaded the event and not yet saved it, the owner's
\* enable, disable and remove requests (collaboration is also switched on by a
\* plain update of the event, which writes no log entry), and a collaborator's
\* edit
NextOverlap ==
  \/ \E body \in CreateBodies : nextEvent < MaxShared /\ CreateEvent(body)
  \/ \E id \in EventIds : EnableCollaboration(id, "u1")
  \/ \E id \in EventIds : PutEvent(id, "u1", [collaborationEnabled |-> TRUE])
  \/ \E id \in EventIds : DisableCollaboration(id, "u1")
  \/ \E c \in ClientIds, id \in EventIds, body \in RaceAddBodies : AddLoad(c, id, body)
  \/ \E c \in ClientIds : AddSave(c)
  \/ \E c \in ClientIds, cid \in TokenInputs : JoinLoad(c, cid, JoinBody("u2", <<"A">>, "Anna"))
  \/ \E c \in ClientIds : JoinSave(c)
  \/ \E id \in EventIds, oid \in TokenInputs : RemoveCollaborator(id, "u1", oid)
  \/ \E cid \in TokenInputs :
        PutCollaborate("client", cid, [userId |-> Null, email |-> <<"a">>, title |-> "t2"])
  \/ \E cid \in TokenInputs : clients["tab1"].put = NoBody /\ ClientLoad("tab1", cid)
  \/ PutLoad("tab1")
  \/ PutSave("tab1")

SpecOverlap == Init /\ [][NextOverlap]_vars

\* several events whose collaboration is switched on and off
NextDisable ==
  \/ \E body \in CreateBodies : CreateEvent(body)
  \/ \E id \in EventIds : EnableCollaboration(id, "u1")
  \/ \E id \in EventIds : DisableCollaboration(id, "u1")

SpecDisable == Init /\ [][NextDisable]_vars

\* server.js:421-430: the checklist of the update POST /api/chat/generate-event-update
\* answers with, from the items the model extracted
extractedChecklist(items) ==
  [i \in DOMAIN items |-> Item(items[i].task, FALSE, FALSE, items[i].dueDate)]

\* what the model extracts from a continued chat: one new task, as many tasks as
\* the event has, one of them new, and the stored tasks with a new one
ExtractedItems ==
  {<<Item(<<"c">>, FALSE, FALSE, NoDate)>>,
   <<Item(<<"a">>, TRUE, FALSE, NoDate), Item(<<"c">>, FALSE, FALSE, NoDate)>>,
   <<Item(<<"a">>, FALSE, FALSE, NoDate), Item(<<"b">>, FALSE, FALSE, NoDate),
     Item(<<"c">>, FALSE, FALSE, NoDate)>>}

\* an event whose owner ticks tasks on the collaborative page and continues the
\* chat, whose page then sends the extracted update (part_005:103-130)
NextChatUpdate ==
  \/ \E body \in CreateBodies : nextEvent < MaxShared /\ CreateEvent(body)
  \/ \E id \in EventIds : EnableCollaboration(id, "u1")
  \/ \E cid \in TokenInputs, id \in EventIds, i \in 1..2 :
        /\ events[id].exists
        /\ i \in DOMAIN events[id].checklist
        /\ PutCollaborate("client", cid,
                          [userId |-> "u1", checklist |-> Toggle(events[id].checklist, i)])
  \/ \E id \in EventIds, items \in ExtractedItems :
        PutEvent(id, "u1", [checklist |-> extractedChecklist(items)])

SpecChatUpdate == Init /\ [][NextChatUpdate]_vars

\* ------------------------------------------ the Saved Events page
\* the JSON of an event document: a field the document lacks is left out
pageBody(copy) ==
  Omit(copy, {"exists"} \cup {f \in {"collaborationId", "shareId"} : copy[f] = Absent})

\* SavedEvents.jsx loads the owner's events (GET /api/events?userId=, server.js:455-474)
\* and shows one of them
SavedLoad(c, id) ==
  /\ mongoConnected
  /\ events[id].exists
  /\ events[id].userId = "u1"
  /\ IF clients[c].put = NoBody THEN TRUE ELSE clients[c].put.phase = "saved"
  /\ clients' = [clients EXCEPT ![c].put = [phase |-> "saved", eid |-> id, event |-> events[id]]]
  /\ resp' = Response("getEvents", 200, "u1", id)
  /\ UNCHANGED <<mongoConnected, events, nextEvent, fresh, now, users, outbox, revoked,
                 shareView, optedOut, plans, policies>>

\* SavedEvents.jsx:521-644 toggleChecklistItem: the page sends its whole copy
\* of the event with one item toggled and, on success, keeps the answer
SavedToggle(c, i) ==
  /\ clients[c].put # NoBody
  /\ clients[c].put.phase = "saved"
  /\ LET selectedEvent == clients[c].put.event
         id == clients[c].put.eid
     IN /\ i \in DOMAIN selectedEvent.checklist
        /\ ~selectedEvent.checklist[i].isTimeHeader
        /\ updateEvent(id, "u1",
                       pageBody([selectedEvent EXCEPT !.checklist = Toggle(@, i)]))
        /\ clients' = IF resp'.status = 200
                      THEN [clients EXCEPT ![c].put.event = events'[id]]
                      ELSE clients

\* the owner's Saved Events page, the owner's Dashboard, which enables
\* collaboration and invites, and an invited collaborator who ticks a task
NextSaved ==
  \/ \E body \in CreateBodies : nextEvent < MaxShared /\ CreateEvent(body)
  \/ \E id \in EventIds : EnableCollaboration(id, "u1")
  \/ \E id \in EventIds : AddCollaborator(id, "u1", AddBody(<<"a">>, "Ann", "edit"))
  \/ \E cid \in TokenInputs, id \in EventIds :
        /\ events[id].exists
        /\ 2 \in DOMAIN events[id].checklist
        /\ PutCollaborate("client", cid,
                          [userId |-> Null, email |-> <<"a">>,
                           checklist |-> Toggle(events[id].checklist, 2)])
  \/ \E id \in EventIds : SavedLoad("tab1", id)
  \/ \E i \in 1..2 : SavedToggle("tab1", i)

SpecSaved == Init /\ [][NextSaved]_vars

\* ================================================================== claims
UpdateOps ==
  {"putEvent", "putCollaborate", "enable", "disable", "addCollaborator", "removeCollaborator"}

CollaborateOps == {"getCollaborative", "putCollaborate", "join", "getActivity"}

\* the collaborators of ev that a request's identity names
NamedBy(ev, userId, email) ==
  {i \in 1..Len(ev.collaborators) :
     \/ userId # Null /\ ev.collaborators[i].userId = userId
     \/ email # <<>> /\ normEmail(ev.collaborators[i].email) = email}

OwnerOf(ev) == IF ev.owner # Null THEN ev.owner ELSE ev.userId

\* the requester is the owner of ev or one of its collaborators with edit or admin
MayEdit(ev, userId, email) ==
  \/ userId # Null /\ OwnerOf(ev) = userId
  \/ \E i \in NamedBy(ev, userId, email) : ev.collaborators[i].permission \in {"edit", "admin"}

\* C1: every operation that updates an event changes the stored event only
\* when the requester is its owner or a collaborator with sufficient
\* permission; a request from anyone else leaves the stored event unchanged.
C1_PermissionOnEveryUpdate ==
  [][\A id \in EventIds :
       (resp'.op \in UpdateOps /\ events[id].exists /\ events'[id] # events[id])
          => MayEdit(events[id], resp'.who, resp'.email)]_vars

\* C2: the owner of an existing event is never changed by a request; it is
\* only set, to the event's userId, when it was not set.
C2_OwnerProtected ==
  [][\A id \in EventIds :
       (events[id].exists /\ events'[id].exists)
          => IF events[id].owner # Null THEN events'[id].owner = events[id].owner
             ELSE events'[id].owner \in {Null, events'[id].userId}]_vars

\* the request's identity names collaborators of ev, all of them with the view
\* permission, and not the owner
ViewOnly(ev, userId, email) ==
  /\ NamedBy(ev, userId, email) # {}
  /\ \A i \in NamedBy(ev, userId, email) : ev.collaborators[i].permission = "view"
  /\ ~(userId # Null /\ OwnerOf(ev) = userId)

\* new differs from old as one join by the collaborator at position i allows:
\* that entry's names, last-active time and unset userId, one appended 'joined'
\* log entry, and the save time
JoinedAs(old, new, i, userId) ==
  /\ \A f \in DOMAIN old \ {"collaborators", "activityLog", "updatedAt"} : new[f] = old[f]
  /\ Len(new.collaborators) = Len(old.collaborators)
  /\ \A j \in 1..Len(old.collaborators) : j # i => new.collaborators[j] = old.collaborators[j]
  /\ \A f \in {"oid", "email", "permission"} : new.collaborators[i][f] = old.collaborators[i][f]
  /\ new.collaborators[i].userId =
       IF old.collaborators[i].userId = Null THEN userId ELSE old.collaborators[i].userId
  /\ Len(new.activityLog) = Len(old.activityLog) + 1
  /\ SubSeq(new.activityLog, 1, Len(old.activityLog)) = old.activityLog
  /\ new.activityLog[Len(new.activityLog)].action = "joined"

C5_DisableRevokes ==
  [][/\ (resp'.op = "disable" /\ resp'.status = 200)
          => /\ ~events'[resp'.eid].collaborationEnabled
             /\ events'[resp'.eid].collaborationId = NoToken
             /\ events'[resp'.eid].collaborators = <<>>
     /\ (resp'.op \in CollaborateOps /\ resp'.cid \in revoked)
          => resp'.status \in {400, 404} /\ events' = events]_vars

\* C7 (as claimed): a successful change of a collaboration-enabled event made
\* through the collaboration API, enabling included, appends at least one entry
\* to the activity log and keeps the entries that were there, in order.
C7_LogOnlyGrows ==
  [][\A id \in EventIds :
       (/\ resp'.op \in {"putCollaborate", "join", "addCollaborator", "removeCollaborator",
                         "enable", "disable"}
        /\ resp'.status = 200
        /\ events[id].exists
        /\ events[id].collaborationEnabled \/ resp'.op = "enable"
        /\ events'[id] # events[id])
          => /\ Len(events'[id].activityLog) > Len(events[id].activityLog)
             /\ SubSeq(events'[id].activityLog, 1, Len(events[id].activityLog))
                  = events[id].activityLog]_vars

\* C3 (as claimed): the public view of a shared event contains neither the
\* event's collaborationId nor its owner or user id nor a collaborator's e-mail
\* address, and a party that knows only the share link never gets a PUT
\* /api/collaborate request on the event accepted.
C3_ShareViewIsSafe ==
  /\ (resp.op = "getPublic" /\ resp.status = 200)
        => /\ DOMAIN resp.body \cap {"collaborationId", "owner", "userId"} = {}
           /\ "collaborators" \in DOMAIN resp.body
                 => \A i \in DOMAIN resp.body.collaborators :
                       "email" \notin DOMAIN resp.body.collaborators[i]
  /\ ~(resp.op = "putCollaborate" /\ resp.actor = "shareHolder" /\ resp.status = 200)

\* the holder of the share link has changed the event through the collaboration API
C3_ShareHolderEdits ==
  /\ resp.op = "putCollaborate"
  /\ resp.actor = "shareHolder"
  /\ resp.status = 200
  /\ events[resp.eid].title = "t2"

\* the two pages have each sent a toggle built from the same loaded checklist to
\* the same event, were both permitted, and both requests have been answered
BothToggled ==
  /\ \A c \in ClientIds :
        /\ "phase" \in DOMAIN clients[c].put
        /\ clients[c].put.phase = "done"
        /\ clients[c].put.status \in {200, 500}
  /\ clients["tab1"].put.base = clients["tab2"].put.base
  /\ clients["tab1"].put.eid = clients["tab2"].put.eid

\* the page whose save was the last to succeed, "none" when neither succeeded
LastSaved ==
  LET ok == {c \in ClientIds : clients[c].put.status = 200}
  IN IF ok = {} THEN "none"
     ELSE CHOOSE c \in ok : \A d \in ok : clients[d].put.version <= clients[c].put.version

\* C6 (as claimed): when two permitted collaborators have each toggled a
\* different checklist item from the same loaded state and both requests have
\* completed, the stored checklist reflects both toggles.
C6_BothTogglesStored ==
  BothToggled =>
    \A c \in ClientIds :
       LET put == clients[c].put
       IN events[put.eid].checklist[TabItem(c)].completed = ~put.base[TabItem(c)].completed

\* C6 (amended): ... the stored checklist is the full checklist sent by the
\* request that was saved last, so it reflects that collaborator's toggle and not
\* the other one; at least one of the two requests succeeded.
C6_LastSaveWins ==
  BothToggled =>
    /\ LastSaved # "none"
    /\ LET last == clients[LastSaved].put
           stored == events[last.eid].checklist
       IN /\ stored = last.body.checklist
          /\ \A c \in ClientIds :
                (stored[TabItem(c)].completed = ~last.base[TabItem(c)].completed) <=> c = LastSaved

\* the two requests overlapped: the one saved second was rejected
C6_Witness ==
  /\ BothToggled
  /\ \E c \in ClientIds : clients[c].put.status = 500
  /\ \E c \in ClientIds : clients[c].put.status = 200

\* the lead time of an event's reminders: its reminderDays, 5 when it has none
LeadDays(ev) ==
  IF "reminderDays" \in DOMAIN ev.notifications
  THEN ev.notifications.reminderDays ELSE DEFAULT_REMINDER_DAYS

\* the items of ev a run at time t must remind of: no header, not completed, due
\* on the calendar day LeadDays(ev) days after the day of t
Qualifying(ev, t) ==
  SelectSeq([i \in 1..Len(ev.checklist) |-> i],
            LAMBDA i : /\ ~ev.checklist[i].isTimeHeader
                       /\ ~ev.checklist[i].completed
                       /\ ev.checklist[i].dueDate # NoDate
                       /\ DayOf(ev.checklist[i].dueDate) = DayOf(t) + LeadDays(ev))

\* the event takes part in the reminders: e-mail not opted out of, and its
\* userId is a user with an e-mail address
Reminded(ev) ==
  /\ ev.exists
  /\ ~("emailOptIn" \in DOMAIN ev.notifications /\ ev.notifications.emailOptIn = FALSE)
  /\ ev.userId \in UserIds
  /\ users[ev.userId].exists
  /\ users[ev.userId].email # <<>>

\* C9 (as claimed): a reminder run hands the transport, for every event that
\* takes part, exactly one mail to the owner when the event has qualifying items
\* and none when it has not; the mail lists exactly the qualifying items.
C9_OneMailPerDueEvent ==
  [][(resp'.op = "cron" /\ now' = now /\ mongoConnected)
        => \A id \in EventIds :
              Reminded(events[id])
                 => LET mails == SelectSeq(outbox', LAMBDA m : m.eid = id)
                        due == Qualifying(events[id], now)
                    IN IF due = <<>> THEN mails = <<>>
                       ELSE /\ Len(mails) = 1
                            /\ mails[1].to = users[events[id].userId].email
                            /\ mails[1].tasks = due]_vars

\* a run has mailed two events
C9_TwoMails ==
  /\ resp.op = "cron"
  /\ Len(outbox) = 2
  /\ outbox[1].eid # outbox[2].eid

\* C10 (as claimed): once unsubscribe has succeeded for an event, no reminder run
\* sends a mail for it until an update has set notifications.emailOptIn to true.
C10_UnsubscribeStops ==
  [][(resp'.op = "cron" /\ now' = now)
        => \A i \in DOMAIN outbox' : outbox'[i].eid \notin optedOut]_vars

\* a run has skipped an unsubscribed event that has qualifying items
C10_Skipped ==
  /\ resp.op = "cron"
  /\ \E id \in optedOut :
        /\ events[id].exists
        /\ Qualifying(events[id], resp.body.ranAt) # <<>>
        /\ \A i \in DOMAIN outbox : outbox[i].eid # id

\* the unsubscribe request carries all three parameters, its signature is the
\* one of its uid and eid, and the event eid exists and belongs to uid
UnsubscribeValid(uid, eid, sig) ==
  /\ uid # "" /\ eid # 0 /\ sig # <<>>
  /\ sig = signUnsubscribe(uid, eid)
  /\ eid \in EventIds
  /\ events[eid].exists
  /\ events[eid].userId = uid

\* new has the notification settings of old except for emailOptIn
OnlyOptInChanged(old, new) ==
  /\ DOMAIN new.notifications \ {"emailOptIn"} = DOMAIN old.notifications \ {"emailOptIn"}
  /\ \A f \in DOMAIN old.notifications \ {"emailOptIn"} : new.notifications[f] = old.notifications[f]

\* C11 (as claimed): an unsubscribe request changes an event only when uid, eid
\* and sig are present, sig is the signature of uid and eid and the event eid
\* belongs to uid; in every other case it is answered 400, 404 or 503 and
\* changes nothing; when it succeeds, emailOptIn is the only notification
\* setting that changes.
C11_UnsubscribeValidated ==
  [][(resp'.op = "unsubscribe" /\ now' = now)
       => LET valid == UnsubscribeValid(resp'.who, resp'.eid, resp'.body.sig)
          IN /\ events' # events => valid
             /\ ~valid => resp'.status \in {400, 404, 503} /\ events' = events
             /\ resp'.status = 200
                  => OnlyOptInChanged(events[resp'.eid], events'[resp'.eid])]_vars

\* C11 (amended): as claimed, except that a request whose lookup or save
\* throws is answered 500: a correctly signed request with an eid that is not
\* an ObjectId, and a valid request for an event that fails validation. Every
\* request that is not answered 200 changes nothing; a request answered 200 is
\* valid, sets emailOptIn to false and keeps the other notification settings
\* and the other events.
C11_UnsubscribeGuarded ==
  [][(resp'.op = "unsubscribe" /\ now' = now)
       => LET valid == UnsubscribeValid(resp'.who, resp'.eid, resp'.body.sig)
          IN /\ events' # events => valid /\ resp'.status = 200
             /\ resp'.status # 200 => resp'.status \in {400, 404, 503, 500} /\ events' = events
             /\ (~valid /\ resp'.status = 500) => resp'.eid = BadId
             /\ (valid /\ resp'.status # 200)
                  => \/ resp'.status = 503 /\ ~mongoConnected
                     \/ resp'.status = 500 /\ ~validates(events[resp'.eid])
             /\ resp'.status = 200
                  => /\ valid
                     /\ events'[resp'.eid].notifications.emailOptIn = FALSE
                     /\ OnlyOptInChanged(events[resp'.eid], events'[resp'.eid])
                     /\ \A o \in EventIds \ {resp'.eid} : events'[o] = events[o]]_vars

\* an unsubscribe has succeeded for an event with a lead time of its own
C11_Witness ==
  /\ resp.op = "unsubscribe"
  /\ resp.status = 200
  /\ events[resp.eid].notifications.emailOptIn = FALSE
  /\ events[resp.eid].notifications.reminderDays # DEFAULT_REMINDER_DAYS

\* the policy collection with the role restriction of document i lifted
Unrestricted(i) == [policies EXCEPT ![i].roleVisibility = "both"]

\* the plan a chat request names, as the handler loads it
ChatPlan(planId) ==
  IF planId \in PlanIds /\ mongoConnected /\ plans[planId].exists THEN plans[planId] ELSE NoPlan

\* C12: the policy context of a chat request depends on the requesting user's
\* role: a policy restricted to students or to staff that would be in the
\* context without its restriction is in the context exactly when the
\* requesting user has that role.
C12_RoleBasedGuidance ==
  [][(resp'.op = "chat" /\ resp'.status = 200 /\ mongoConnected)
       => \A i \in DOMAIN policies :
            LET p == policies[i]
                lifted == buildPolicyContext(Unrestricted(i), NoUser, ChatPlan(resp'.body.planId),
                                             resp'.body.message)
                included == \E j \in DOMAIN resp'.body.policyContext :
                               resp'.body.policyContext[j] = p
            IN (/\ p.roleVisibility \in {"student", "staff"}
                /\ \E j \in DOMAIN lifted : lifted[j] = Unrestricted(i)[i])
                  => (included <=> p.roleVisibility = resp'.body.role)]_vars

\* a chat of a student was answered with a policy context while the collection
\* holds a policy for students only
C12_StudentAsked ==
  /\ resp.op = "chat"
  /\ resp.status = 200
  /\ resp.body.role = "student"
  /\ resp.body.policyContext # <<>>
  /\ \E i \in DOMAIN policies : policies[i].roleVisibility = "student"

\* C13: link creation is create-or-return. A share request for an event that
\* has sharing enabled and a shareId returns that shareId and leaves the stored
\* events unchanged; an enable request for an event whose collaboration is
\* enabled returns the stored collaborationId and leaves the stored events, the
\* activity log included, unchanged.
C13_CreateOrReturn ==
  [][\A id \in EventIds :
       (resp'.eid = id /\ now' = now /\ events[id].exists)
          => /\ (resp'.op = "share" /\ events[id].shareEnabled /\ events[id].shareId > NoToken)
                  => /\ resp'.status = 200
                     /\ resp'.body.shareId = events[id].shareId
                     /\ events' = events
             /\ (resp'.op = "enable" /\ events[id].collaborationEnabled)
                  => /\ resp'.status = 200
                     /\ resp'.body.collaborationId = events[id].collaborationId
                     /\ events' = events]_vars

\* a share request was answered with a shareId older than the event's
\* collaborationId: the link was returned, not created
C13_Witness ==
  /\ resp.op = "share"
  /\ resp.status = 200
  /\ resp.eid \in EventIds
  /\ events[resp.eid].collaborationEnabled
  /\ resp.body.shareId = events[resp.eid].shareId
  /\ events[resp.eid].shareId > NoToken
  /\ events[resp.eid].shareId < events[resp.eid].collaborationId

\* the stored users that have the vanderbiltId v
UsersOf(v) == {u \in UserIds : users[u].exists /\ users[u].vanderbiltId = v}

\* C14: at most one User document exists per vanderbiltId, also when logins
\* overlap, and a login for a vanderbiltId that is stored is answered with the
\* stored user and changes no user, whatever else the request carries.
C14_OneUserPerVanderbiltId ==
  [][/\ \A u, w \in UserIds :
          (users'[u].exists /\ users'[w].exists /\ users'[u].vanderbiltId = users'[w].vanderbiltId)
             => u = w
     /\ \A u \in UserIds :
          users[u].exists => users'[u] = users[u]
     /\ (resp'.op = "login" /\ resp' # resp /\ resp'.status = 200 /\ mongoConnected
           /\ clients' = clients /\ UsersOf(resp'.body.request.vanderbiltId) # {})
          => /\ resp'.body.user \in {users[u] : u \in UsersOf(resp'.body.request.vanderbiltId)}
             /\ users' = users]_vars

\* two overlapping logins for one new vanderbiltId: the first was saved and
\* the second, which had found nobody, fell back to a user that is not stored
C14_Witness ==
  /\ resp.op = "login"
  /\ resp.status = 200
  /\ resp.body.user.id = TempId(resp.body.request.vanderbiltId)
  /\ resp.body.request.role \in {"student", "staff"}
  /\ \E u \in UsersOf(resp.body.request.vanderbiltId) : users[u].email # resp.body.request.email
  /\ \A c \in ClientIds : clients[c] = NoTab

\* the login request lacks one of the four required fields
Incomplete(request) ==
  \/ request.vanderbiltId \in {Null, ""} \/ request.email = <<>>
  \/ request.firstName \in {Null, ""} \/ request.lastName \in {Null, ""}

\* C15: a login is answered 400 exactly when one of vanderbiltId, email,
\* firstName, lastName is missing, and then nothing is stored; every other
\* login is answered 200 with a user and a token. The user is the stored one
\* or, when the database is unavailable or the save fails, a fallback whose
\* _id is 'temp-' followed by the vanderbiltId and which is not stored.
C15_LoginAnswers ==
  [][(resp'.op = "login" /\ resp' # resp)
       => LET request == resp'.body.request
              stored == {users'[u] : u \in {w \in UserIds : users'[w].exists}}
          IN /\ resp'.status = 400 <=> Incomplete(request)
             /\ resp'.status # 400 <=> resp'.status = 200
             /\ resp'.status = 400 => users' = users
             /\ resp'.status = 200
                  => /\ resp'.body.token = "mock-jwt-token"
                     /\ resp'.body.user.vanderbiltId = request.vanderbiltId
                     /\ \/ resp'.body.user \in stored
                        \/ /\ resp'.body.user.id \in {"temp-v1", "temp-v2"}
                           /\ (request.vanderbiltId = "v1") = (resp'.body.user.id = "temp-v1")
                           /\ users' = users
                     /\ (~mongoConnected \/ (users' = users /\ UsersOf(request.vanderbiltId) = {}))
                          => resp'.body.user \notin stored]_vars

\* a complete login for a new vanderbiltId whose save failed, because its
\* e-mail address belongs to another user, got the fallback user
C15_Witness ==
  /\ resp.op = "login"
  /\ resp.status = 200
  /\ mongoConnected
  /\ resp.body.user.id = "temp-v2"
  /\ UsersOf("v2") = {}
  /\ \E u \in UserIds : users[u].exists /\ users[u].email = resp.body.request.email

\* the requester is the owner or the creator of ev, or is named, by userId or
\* normalised e-mail address, by a collaborator entry with edit or admin
Authorized(ev, userId, email) ==
  \/ userId # Null /\ userId \in {ev.owner, ev.userId}
  \/ \E i \in NamedBy(ev, userId, email) : ev.collaborators[i].permission \in {"edit", "admin"}

\* C16 (as claimed): a collaborative PUT is applied only for an authorized
\* requester; every other request is answered 400, 404 or 403 and leaves the
\* stored events unchanged.
C16_EditGuarded ==
  [][resp'.op = "putCollaborate"
       => LET authorized == /\ resp'.eid \in EventIds
                            /\ Authorized(events[resp'.eid], resp'.who, resp'.email)
          IN /\ events' # events => authorized
             /\ ~authorized => resp'.status \in {400, 404, 403} /\ events' = events]_vars

\* C16 (amended): as claimed, with 503 among the answers: the request is
\* answered 503 exactly when the database is not connected, before anything
\* else is looked at. Every request that is not answered 200 leaves the stored
\* events, last-active times and activity logs included, unchanged; a request
\* answered 403 names an event whose link exists.
C16_EditGuardedOrUnavailable ==
  [][resp'.op = "putCollaborate"
       => LET authorized == /\ resp'.eid \in EventIds
                            /\ Authorized(events[resp'.eid], resp'.who, resp'.email)
          IN /\ events' # events => authorized /\ resp'.status = 200
             /\ ~authorized => resp'.status \in {503, 400, 404, 403} /\ events' = events
             /\ resp'.status = 503 <=> ~mongoConnected
             /\ resp'.status = 404
                  => ~\E id \in Existing : /\ events[id].collaborationEnabled
                                           /\ events[id].collaborationId = resp'.cid
             /\ resp'.status = 403
                  => /\ events[resp'.eid].collaborationEnabled
                     /\ events[resp'.eid].collaborationId = resp'.cid
             /\ resp'.status # 200 => events' = events]_vars

\* a stranger who gave a userId and an e-mail address was refused by an event
\* that has a collaborator with the edit permission
C16_Witness ==
  /\ resp.op = "putCollaborate"
  /\ resp.status = 403
  /\ resp.who # Null /\ resp.email # <<>>
  /\ NamedBy(events[resp.eid], resp.who, resp.email) = {}
  /\ \E i \in DOMAIN events[resp.eid].collaborators :
        events[resp.eid].collaborators[i].permission = "edit"
  /\ events[resp.eid].title = "t1"

C18_NoDuplicateEmail ==
  \A id \in Existing :
     \A i, j \in DOMAIN events[id].collaborators :
        normEmail(events[id].collaborators[i].email) = normEmail(events[id].collaborators[j].email)
          => i = j

\* the second of two overlapping add-collaborator requests for one address is
\* answered 200 and leaves two entries with that address
C18_Witness ==
  /\ resp.op = "addCollaborator"
  /\ resp.status = 200
  /\ Len(events[resp.eid].collaborators) = 2
  /\ events[resp.eid].collaborators[1].email = events[resp.eid].collaborators[2].email
  /\ events[resp.eid].collaborators[2].oid = resp.body.oid

\* C19: an event whose collaboration is disabled has no collaborators, also
\* when requests on the event overlap.
C19_DisabledHasNoCollaborators ==
  \A id \in Existing : ~events[id].collaborationEnabled => events[id].collaborators = <<>>

\* an add-collaborator request that loaded the event before the owner disabled
\* collaboration is answered 200 after it
C19_Witness ==
  /\ resp.op = "addCollaborator"
  /\ resp.status = 200
  /\ ~events[resp.eid].collaborationEnabled
  /\ events[resp.eid].collaborationId = NoToken
  /\ Len(events[resp.eid].collaborators) = 1

\* C20: a successful DELETE of a collaborator leaves no entry with the removed
\* collaborator's normalised e-mail address, so that a collaborative PUT
\* identified by that address alone has no edit permission; and no join and no
\* collaborative PUT, also one that loaded the event before the removal and saves
\* after it, puts an entry back or changes whom the entries name.
C20_RemovedStaysOut ==
  [][/\ (resp'.op = "removeCollaborator" /\ resp'.status = 200) =>
          LET before == events[resp'.eid].collaborators
              after == events'[resp'.eid].collaborators
          IN \A i \in DOMAIN before :
                (\A j \in DOMAIN after : after[j].oid # before[i].oid)
                  => /\ \A j \in DOMAIN after :
                           normEmail(after[j].email) # normEmail(before[i].email)
                     /\ ~HasEditPermission(events'[resp'.eid], Null, normEmail(before[i].email))
     /\ resp'.op \in {"join", "putCollaborate"} =>
          \A id \in Existing :
             [i \in DOMAIN events'[id].collaborators |->
                <<events'[id].collaborators[i].oid, events'[id].collaborators[i].email>>]
               = [i \in DOMAIN events[id].collaborators |->
                    <<events[id].collaborators[i].oid, events[id].collaborators[i].email>>]]_vars

\* C21: with the database connected, disabling the collaboration of an existing
\* event is answered 200 and leaves the event without collaboration, whatever
\* the other events are.
C21_DisableNeverFails ==
  [][(resp'.op = "disable" /\ mongoConnected /\ events[resp'.eid].exists)
       => /\ resp'.status = 200
          /\ ~events'[resp'.eid].collaborationEnabled
          /\ events'[resp'.eid].collaborationId = NoToken]_vars

\* the collaboration of a second event is to be disabled while another event
\* stores collaborationId = null: the request is answered 500 and the event
\* stays enabled
C21_Witness ==
  /\ resp.op = "disable"
  /\ resp.status = 500
  /\ events[resp.eid].collaborationEnabled
  /\ \E o \in Existing \ {resp.eid} :
        ~events[o].collaborationEnabled /\ events[o].collaborationId = NoToken

\* C22: an update of an event from a continued chat removes no stored checklist
\* item and resets no stored item's completed flag, however many items the
\* submitted checklist has.
C22_ChatUpdatePreserves ==
  [][(resp'.op = "putEvent" /\ resp'.eid \in EventIds /\ events[resp'.eid].exists)
       => \A i \in DOMAIN events[resp'.eid].checklist :
             \E j \in DOMAIN events'[resp'.eid].checklist :
                /\ events'[resp'.eid].checklist[j].task = events[resp'.eid].checklist[i].task
                /\ events[resp'.eid].checklist[i].completed
                     => events'[resp'.eid].checklist[j].completed]_vars

\* after a task was completed, an update with as many items as the event had
\* is stored: task b is gone and nothing is completed
C22_Witness ==
  /\ resp.op = "putEvent"
  /\ resp.status = 200
  /\ \E i \in DOMAIN events[resp.eid].activityLog :
        events[resp.eid].activityLog[i].action = "completed_task"
  /\ Len(events[resp.eid].checklist) = 2
  /\ \A j \in DOMAIN events[resp.eid].checklist :
        /\ events[resp.eid].checklist[j].task # <<"b">>
        /\ ~events[resp.eid].checklist[j].completed

\* C23: a checklist toggle on the Saved Events page changes, in the stored
\* event, at most updatedAt and the completed flag of one checklist item; every
\* other stored field and item keeps the value it had just before the request,
\* also when the page's copy is stale.
C23_ToggleOnly ==
  [][(resp'.op = "putEvent" /\ resp'.eid \in EventIds /\ events[resp'.eid].exists)
       => LET old == events[resp'.eid]
              new == events'[resp'.eid]
          IN /\ \A f \in DOMAIN old \ {"checklist", "updatedAt"} : new[f] = old[f]
             /\ Len(new.checklist) = Len(old.checklist)
             /\ \E i \in DOMAIN old.checklist :
                   /\ \A j \in DOMAIN old.checklist \ {i} : new.checklist[j] = old.checklist[j]
                   /\ [new.checklist[i] EXCEPT !.completed = old.checklist[i].completed]
                        = old.checklist[i]]_vars

\* the page loaded the event before collaboration was enabled and toggles a
\* task afterwards: the event is stored with collaboration off and an empty
\* activity log, and keeps the collaborationId
C23_Witness ==
  /\ resp.op = "putEvent"
  /\ resp.status = 200
  /\ ~events[resp.eid].collaborationEnabled
  /\ events[resp.eid].collaborationId > NoToken
  /\ events[resp.eid].activityLog = <<>>
  /\ events[resp.eid].checklist[1].completed

\* C24: in a reminder run, every event that qualifies for a reminder and whose
\* own mail does not fail gets its mail sent, whatever fails for the other
\* events of the run.
C24_FailureIsolated ==
  [][(resp'.op = "cron" /\ now' = now /\ mongoConnected)
        => \A id \in EventIds \ resp'.body.failing :
              (Reminded(events[id]) /\ Qualifying(events[id], now) # <<>>)
                 => \E i \in DOMAIN outbox' : outbox'[i].eid = id /\ outbox'[i].delivered]_vars

\* the transport rejected the mail of event 1, and event 2, which qualifies,
\* got none
C24_Witness ==
  /\ resp.op = "cron"
  /\ resp.body.failing = {1}
  /\ Len(outbox) = 1 /\ outbox[1].eid = 1 /\ ~outbox[1].delivered
  /\ events[2].exists
  /\ Reminded(events[2])
  /\ Qualifying(events[2], resp.body.ranAt) # <<>>

\* the context of a chat answer holds a policy of the Alcohol category
AlcoholSupplied(context) == \E j \in DOMAIN context : context[j].category = <<"Alcohol">>

\* C25: with the seeded policies, the policy context built for a chat holds
\* the Alcohol policy exactly when the message mentions an alcohol keyword or
\* the loaded plan has hasAlcohol = true, for every program type and location
\* of the plan and for a chat without a plan.
C25_AlcoholWhenApplicable ==
  [][(resp'.op = "chat" /\ resp'.status = 200 /\ mongoConnected /\ policies = POLICIES)
        => LET plan == ChatPlan(resp'.body.planId)
           IN AlcoholSupplied(resp'.body.policyContext)
                 <=> (\/ Mentions(resp'.body.message, AlcoholWords)
                      \/ (plan.exists /\ plan.hasAlcohol))]_vars

\* a chat without a plan asked about beer over the seeded policies, and its
\* context holds other policies but not the Alcohol policy
C25_Witness ==
  /\ resp.op = "chat"
  /\ resp.status = 200
  /\ policies = POLICIES
  /\ resp.body.planId = 0
  /\ Mentions(resp.body.message, AlcoholWords)
  /\ resp.body.policyContext # <<>>
  /\ ~AlcoholSupplied(resp.body.policyContext)

====
